---- MODULE Spec2Model ----
(***************************************************************************)
(* SignalWatchUK: the director network crawler (network_scanner.py) and    *)
(* the sliding-window rate limiter (core/rate_limiter.py).                  *)
(*                                                                         *)
(* Spec    : one scan_network run over a registry fixed at Init, one       *)
(*           action per stretch of code between two blocking registry      *)
(*           calls, followed by the post-analysis of the returned snapshot.*)
(* RLSpec  : threads calling RateLimiter.acquire() against a global clock. *)
(***************************************************************************)
EXTENDS Integers, Sequences, FiniteSets, TLC

VARIABLES
    \* ---- the registry behind the api client (fixed during a crawl)
    reg_status,         \* company number -> company_status of its profile
    reg_officers,       \* company number -> officer list of the company
    \* ---- scan_network arguments
    seed_companies, max_depth, max_companies, active_only,
    \* ---- NetworkScanner fields and scan_network locals
    network,            \* the snapshot being assembled
    scanned_companies, scanned_officers,
    companies_to_scan,  \* the frontier, FIFO list of <<company_number, depth>>
    pc,                 \* position of scan_network
    cur,                \* (company_number, depth) just dequeued
    officers,           \* officers of cur still to be processed by the for loop
    officer,            \* the officer whose fan-out is in progress
    officer_api_id,     \* id extracted from the best match
    clusters,           \* result of find_company_clusters on the snapshot
    shared,             \* result of find_shared_directors on the snapshot
    \* ---- history of the run (observation only)
    calls,              \* registry calls made: [op, arg, depth, ok]
    dropped,            \* frontier items dropped by the guard of line 65
    failures,           \* number of registry calls that raised
    steps,              \* number of steps scan_network has taken
    \* ---- RateLimiter
    rl_max_requests, rl_period,
    requests,           \* self.requests, the deque of timestamps
    lock,               \* holder of self.lock, or NoThread
    clock,              \* time.time()
    rpc,                \* thread -> position in acquire()
    now,                \* thread -> local variable now
    wake,               \* thread -> time at which time.sleep returns at the earliest
    grants,             \* every timestamp ever appended by acquire, in order
    started, returned, appended,  \* per thread: calls begun, calls returned, appends made
    remaining,          \* the last value get_remaining_requests returned
    \* ---- CompaniesHouseClient.get_officers and the registry answering it
    srv_total,          \* number of officers the company has at the registry
    srv_page_size,      \* page size the registry uses when the request names none
    items_per_page,     \* argument of get_officers
    start_index, all_officers,
    attempt,            \* loop variable of _make_request
    apc,                \* position of get_officers
    req_errors,         \* RequestExceptions met by the _make_request call in hand
    throttles, errs,    \* 429 answers and RequestExceptions so far
    slept,              \* the time.sleep calls of the client, in order
    trips,              \* HTTP round trips of the _make_request call in hand
    call_slept,         \* the sleeps of that call, each with what caused it
    \* ---- NameParser.normalize_name
    name1, name2,       \* two raw company names
    edits,              \* number of variations that lead from name1 to name2
    norm1, norm2,       \* their normalized names
    npc,                \* "names" while name2 is varied, then "normalized"
    \* ---- the choice of the best match among the results of an officer search
    bm_results,         \* officer_results
    bm_name,            \* officer_name
    best_match,
    bmpc,               \* "results", then "matched"
    \* ---- BatchProcessor.process_companies
    company_numbers,    \* the argument
    scan_network,       \* the argument
    checkpoint_file,    \* what the file holds, NoFile when it does not exist
    checkpoint_at_start,\* what it held when the run began
    results,            \* the dict built by the run
    processed,          \* the set read from the checkpoint
    idx,                \* index of the next company, from 0
    handled,            \* the companies handed to _process_single_company
    bpc,                \* "start", "loop", "done"
    \* ---- MismatchDetector._check_missing_filings
    company_profile,    \* the argument: current and previous names
    parsed_documents,   \* the argument
    issues,             \* what the check returns
    mdc,                \* "documents", then "checked"
    \* ---- CompaniesHouseClient.get_company_profile
    registry_profiles,  \* the status the registry gives for each company
    cache_dir,          \* the text of each profile file, NoEntry without file
    first_returned,     \* the first profile returned for each company
    last_call,          \* the latest call and what it returned
    acquired,           \* tokens taken from the rate limiter
    http_requests,      \* HTTP round trips made
    pf_calls,           \* calls of get_company_profile so far
    \* ---- two scan_network invocations on one scanner
    other,              \* the locals of the invocation that is not running
    alone,              \* the snapshot of the crawl that ran alone
    phase,              \* "alone", then "pair"
    switches            \* times the running invocation changed

scanVars == <<reg_status, reg_officers, seed_companies, max_depth, max_companies,
              active_only, network, scanned_companies, scanned_officers,
              companies_to_scan, pc, cur, officers, officer, officer_api_id,
              clusters, shared, calls, dropped, failures, steps>>
rlVars == <<rl_max_requests, rl_period, requests, lock, clock, rpc, now, wake,
            grants, started, returned, appended, remaining>>
apiVars == <<srv_total, srv_page_size, items_per_page, start_index, all_officers,
             attempt, apc, req_errors, throttles, errs, slept, trips,
             call_slept>>
npVars == <<name1, name2, edits, norm1, norm2, npc>>
bmVars == <<bm_results, bm_name, best_match, bmpc>>
\* the variables of the components added to the four above
bpVars == <<company_numbers, scan_network, checkpoint_file, checkpoint_at_start,
            results, processed, idx, handled, bpc>>
mdVars == <<company_profile, parsed_documents, issues, mdc>>
pfVars == <<registry_profiles, cache_dir, first_returned, last_call, acquired,
            http_requests, pf_calls>>
ovVars == <<other, alone, phase, switches>>
moreVars == <<bmVars, bpVars, mdVars, pfVars, ovVars>>
\* what the steps of each added component leave alone
bmRest == <<scanVars, rlVars, apiVars, npVars, bpVars, mdVars, pfVars, ovVars>>
bpRest == <<scanVars, rlVars, apiVars, npVars, bmVars, mdVars, pfVars, ovVars>>
mdRest == <<scanVars, rlVars, apiVars, npVars, bmVars, bpVars, pfVars, ovVars>>
ovRest == <<rlVars, apiVars, npVars, bmVars, bpVars, mdVars, pfVars>>
pfRest == <<scanVars, rlVars, apiVars, npVars, bmVars, bpVars, mdVars, ovVars>>
vars == <<scanVars, rlVars, apiVars, npVars, moreVars>>

-----------------------------------------------------------------------------
(* Bounds of the model *)
MaxSeeds == 2          \* longest seed list
MaxDepthArg == 2       \* largest max_depth argument
MaxCompaniesArg == 3   \* largest max_companies argument
MaxFailures == 1       \* registry calls that may raise during one crawl
MaxRequests == 2       \* largest max_requests of the rate limiter
MaxPeriod == 2         \* largest period of the rate limiter
MaxCalls == 2          \* acquire() calls per thread
MaxClock == 2          \* latest time at which the clock still advances freely
MaxOfficers == 3       \* most officers a company has at the registry
MaxPageSize == 2       \* largest page size
MaxThrottled == 3      \* 429 answers during one get_officers call
MaxErrors == 3         \* RequestExceptions during one get_officers call
MaxNameParts == 3      \* parts a raw company name is put together from
MaxEdits == 2          \* variations applied to a name
MaxResults == 6
MaxShortList == 3      \* longest list of company numbers with repetitions
MaxBatchNumber == 2    \* the company numbers of such a list are 1..MaxBatchNumber
MaxBeyond == 1         \* the long list has CHECKPOINT_INTERVAL + MaxBeyond numbers
MaxCheckpointed == 1   \* companies already in the checkpoint at the start
MaxDocuments == 2      \* parsed documents of one company
MaxProfileCalls == 3   \* calls of get_company_profile
MaxSwitches == 2       \* changes of the running invocation        \* most results an officer search returns

-----------------------------------------------------------------------------
(* Strings are sequences of one-character strings, so that upper(), `in`,  *)
(* concatenation and split are computed rather than assumed.               *)
LowerCase == <<"a","b","c","d","e","f","g","h","i","j","k","l","m",
               "n","o","p","q","r","s","t","u","v","w","x","y","z">>
UpperCase == <<"A","B","C","D","E","F","G","H","I","J","K","L","M",
               "N","O","P","Q","R","S","T","U","V","W","X","Y","Z">>

UpperChar(ch) ==
    IF \E i \in 1..26 : LowerCase[i] = ch
    THEN UpperCase[CHOOSE i \in 1..26 : LowerCase[i] = ch]
    ELSE ch

Upper(s) == [i \in 1..Len(s) |-> UpperChar(s[i])]

\* Python's `sub in s` on strings
Contains(sub, s) ==
    \E i \in 1..(Len(s) - Len(sub) + 1) : SubSeq(s, i, i + Len(sub) - 1) = sub

CorporateKeywords ==
    << <<"L","I","M","I","T","E","D">>, <<"L","T","D">>, <<"P","L","C">>,
       <<"L","L","P">>, <<"C","O","M","P","A","N","Y">>,
       <<"C","O","R","P","O","R","A","T","E">> >>

\* (mutant) the keywords looked for in the name as it is written
IsCorporateOfficer_CaseSensitive(officer_name) ==
    \E k \in 1..Len(CorporateKeywords) :
        Contains(CorporateKeywords[k], officer_name)

\* line 151
IsCorporateOfficer(officer_name) ==
    \E k \in 1..Len(CorporateKeywords) :
        Contains(CorporateKeywords[k], Upper(officer_name))

OfficerId(o) == o.name \o <<"_">> \o o.appointed_on

-----------------------------------------------------------------------------
(* The registry universe *)
Companies == {"AA", "BB", "CC"}

ANN == <<"A","n","n">>
ANNA == <<"A","N","N","A">>
XLTD == <<"X"," ","L","t","d">>
NoDate == << >>

Off(n, d, r) == [name |-> n, appointed_on |-> d, resigned_on |-> r]

\* officer lists companies AA and BB of the registry may have
OfficerLists ==
    { << Off(ANNA, <<"1">>, NoDate) >>,
      << Off(ANN, <<"1">>, NoDate) >>,
      << Off(XLTD, <<"1">>, NoDate), Off(ANN, <<"2">>, NoDate) >> }

\* officer lists of the registry; CC has an active and a resigned officer
OfficerMaps ==
    { [c \in Companies |->
          CASE c = "AA" -> a
            [] c = "BB" -> b
            [] OTHER    -> << Off(ANNA, <<"1">>, NoDate), Off(ANN, <<"1">>, <<"9">>) >>] :
        a \in OfficerLists, b \in OfficerLists }

\* company_status maps of the registry: every company active, or CC dissolved
StatusMaps ==
    { [c \in Companies |-> IF c \in D THEN "dissolved" ELSE "active"] :
        D \in {{}, {"CC"}} }

-----------------------------------------------------------------------------
(* Generic helpers *)
RECURSIVE SetToSeq(_)
SetToSeq(S) == IF S = {} THEN << >>
               ELSE LET x == CHOOSE x \in S : TRUE IN <<x>> \o SetToSeq(S \ {x})

RECURSIVE FlattenSeq(_)
FlattenSeq(ss) == IF ss = << >> THEN << >> ELSE Head(ss) \o FlattenSeq(Tail(ss))

Range(s) == {s[i] : i \in 1..Len(s)}

\* (mutant) the first argument whatever the second is
Max_First(a, b) == a

Max(a, b) == IF a >= b THEN a ELSE b

\* d[key] = rec on a Python dict kept as the list of its items in insertion order
DictHas(d, key) == \E i \in 1..Len(d) : d[i].key = key
DictPut(d, key, rec) ==
    IF DictHas(d, key)
    THEN [i \in 1..Len(d) |-> IF d[i].key = key THEN rec ELSE d[i]]
    ELSE Append(d, rec)
DictGet(d, key) == d[CHOOSE i \in 1..Len(d) : d[i].key = key]
DictKeys(d) == {d[i].key : i \in 1..Len(d)}

-----------------------------------------------------------------------------
(* The api client when it is not under study *)
ApiIdle ==
    /\ srv_total = 0
    /\ srv_page_size = 1
    /\ items_per_page = 1
    /\ start_index = 0
    /\ all_officers = << >>
    /\ attempt = 0
    /\ apc = "off"
    /\ req_errors = 0
    /\ throttles = 0
    /\ errs = 0
    /\ slept = << >>
    /\ trips = 0
    /\ call_slept = << >>

\* the name parser when it is not under study
NpIdle ==
    /\ name1 = << >>
    /\ name2 = << >>
    /\ edits = 0
    /\ norm1 = << >>
    /\ norm2 = << >>
    /\ npc = "off"

\* no best match is being chosen
BmIdle ==
    /\ bm_results = << >>
    /\ bm_name = << >>
    /\ best_match = << >>
    /\ bmpc = "off"

\* the components added to the four above, none of them under study
NoFile == [exists |-> FALSE]

BpIdle ==
    /\ company_numbers = << >>
    /\ scan_network = FALSE
    /\ checkpoint_file = NoFile
    /\ checkpoint_at_start = NoFile
    /\ results = NoFile
    /\ processed = {}
    /\ idx = 0
    /\ handled = << >>
    /\ bpc = "idle"

MdIdle ==
    /\ company_profile = << >>
    /\ parsed_documents = << >>
    /\ issues = << >>
    /\ mdc = "idle"

NoEntry == << >>
NoProfile == [company_number |-> "", company_name |-> "", company_status |-> ""]
NoCall == [company_number |-> "", ok |-> FALSE, data |-> NoProfile]

PfIdle ==
    /\ registry_profiles = << >>
    /\ cache_dir = << >>
    /\ first_returned = << >>
    /\ last_call = NoCall
    /\ acquired = 0
    /\ http_requests = 0
    /\ pf_calls = 0

OvIdle ==
    /\ other = << >>
    /\ alone = << >>
    /\ phase = "off"
    /\ switches = 0

MoreIdle == BmIdle /\ BpIdle /\ MdIdle /\ PfIdle /\ OvIdle

-----------------------------------------------------------------------------
(* The registry as seen through CompaniesHouseClient.  The answers are the *)
(* ones a consistent registry gives: an officer record per officer name,   *)
(* whose appointments are the officer entries of that name.                *)
CompanyOrder == <<"AA", "BB", "CC">>
NameOrder == <<ANNA, ANN>>

GetCompanyProfile(company_number) ==
    [company_status |-> reg_status[company_number]]

GetOfficers(company_number) == reg_officers[company_number]

\* the officer search matches every registered officer whose name starts
\* with the query, ignoring case, in the registry's own relevance order
SearchMatches(title, query) ==
    /\ Len(title) >= Len(query)
    /\ SubSeq(Upper(title), 1, Len(query)) = Upper(query)

SelfLink(title) == <<"/", "officers", "/">> \o Upper(title) \o <<"/", "appointments">>

SearchOfficers(officer_name) ==
    LET hit(i) == /\ \E c \in Companies : \E j \in 1..Len(reg_officers[c]) :
                        reg_officers[c][j].name = NameOrder[i]
                  /\ SearchMatches(NameOrder[i], officer_name)
    IN  FlattenSeq([i \in 1..Len(NameOrder) |->
            IF hit(i)
            THEN << [title |-> NameOrder[i], links |-> [self |-> SelfLink(NameOrder[i])]] >>
            ELSE << >>])

GetOfficerAppointments(api_id) ==
    LET ofCompany(c) ==
            FlattenSeq([j \in 1..Len(reg_officers[c]) |->
                IF Upper(reg_officers[c][j].name) = api_id
                THEN << [appointed_to |-> [company_number |-> c,
                                           company_status |-> reg_status[c]],
                         resigned_on |-> reg_officers[c][j].resigned_on] >>
                ELSE << >>])
    IN  FlattenSeq([k \in 1..Len(CompanyOrder) |-> ofCompany(CompanyOrder[k])])

\* str.split('/') of Python
RECURSIVE SplitSlash(_, _)
SplitSlash(s, acc) ==
    IF s = << >> THEN <<acc>>
    ELSE IF Head(s) = "/" THEN <<acc>> \o SplitSlash(Tail(s), << >>)
    ELSE SplitSlash(Tail(s), Append(acc, Head(s)))

-----------------------------------------------------------------------------
(* scan_network *)

\* (mutant) get_company_profile called before the try of line 70
TryBlocks_ProfileOutsideTry(site) ==
    CASE site = "get_company_profile"      -> << >>
      [] site = "get_officers"             -> <<"outer">>
      [] site = "search_officers"          -> <<"inner", "outer">>
      [] site = "get_officer_appointments" -> <<"appt", "inner", "outer">>

\* the try blocks around each registry call, innermost first; every one of
\* them is an `except Exception`
TryBlocks(site) ==
    CASE site = "get_company_profile"      -> <<"outer">>
      [] site = "get_officers"             -> <<"outer">>
      [] site = "search_officers"          -> <<"inner", "outer">>
      [] site = "get_officer_appointments" -> <<"appt", "inner", "outer">>

\* where scan_network goes on after the call at `site` raised
Resume(site) == IF TryBlocks(site) = << >> THEN "raised" ELSE Head(TryBlocks(site))

EmptyNetwork ==
    [companies |-> << >>, directors |-> << >>, connections |-> << >>,
     statistics |-> [total_companies |-> 0, total_directors |-> 0,
                     total_connections |-> 0, depth_reached |-> 0]]

NoOfficer == Off(<< >>, << >>, << >>)

Called(op, arg, ok) ==
    calls' = Append(calls,
                    [op |-> op, arg |-> arg, depth |-> cur[2], ok |-> ok,
                     officer_id |-> IF op \in {"search_officers", "get_officer_appointments"}
                                    THEN OfficerId(officer) ELSE << >>])

MayFail == failures < MaxFailures

\* (mutant) the cap compared with <= instead of <
LoopCondition_Le ==
    /\ companies_to_scan # << >>
    /\ Cardinality(scanned_companies) <= max_companies

\* while companies_to_scan and len(self.scanned_companies) < max_companies
LoopCondition ==
    /\ companies_to_scan # << >>
    /\ Cardinality(scanned_companies) < max_companies

\* (mutant) the guard without its depth test
SkipItem_NoDepth(item) == item[1] \in scanned_companies

\* the guard of line 65
SkipItem(item) == item[1] \in scanned_companies \/ item[2] > max_depth

\* (mutant) the head of the frontier is read but not removed
PopFront_Peek(q) == q

\* companies_to_scan.pop(0), line 62: what is left of the frontier
PopFront(q) == Tail(q)

Dequeue ==
    /\ pc = "loop"
    /\ LoopCondition
    /\ companies_to_scan' = PopFront(companies_to_scan)
    /\ LET item == Head(companies_to_scan) IN
         IF SkipItem(item)
         THEN /\ dropped' = Append(dropped, item)
              /\ UNCHANGED <<pc, cur>>
         ELSE /\ cur' = item
              /\ pc' = "profile"
              /\ UNCHANGED dropped
    /\ UNCHANGED <<reg_status, reg_officers, seed_companies, max_depth, max_companies,
                   active_only, network, scanned_companies, scanned_officers,
                   officers, officer, officer_api_id, clusters, shared, calls, failures>>
    /\ steps' = steps + 1
    /\ UNCHANGED <<rlVars, apiVars, npVars, moreVars>>

\* the call at `site` raises: control goes to the innermost enclosing handler
Raise(site) ==
    /\ failures' = failures + 1
    /\ pc' = CASE Resume(site) = "outer" -> "loop"
               [] Resume(site) = "inner" -> "officer_loop"
               [] Resume(site) = "appt"  -> "officer_loop"
               [] OTHER                  -> "raised"
    /\ scanned_officers' = IF Resume(site) = "appt"
                           THEN scanned_officers \cup {OfficerId(officer)}  \* line 208
                           ELSE scanned_officers

\* lines 72-76
FetchProfile ==
    /\ pc = "profile"
    /\ \/ /\ Called("get_company_profile", cur[1], TRUE)
          /\ LET profile == GetCompanyProfile(cur[1]) IN
               pc' = IF active_only /\ profile.company_status # "active"
                     THEN "loop" ELSE "officers"
          /\ UNCHANGED <<failures, scanned_officers>>
       \/ /\ MayFail
          /\ Called("get_company_profile", cur[1], FALSE)
          /\ Raise("get_company_profile")
    /\ UNCHANGED <<reg_status, reg_officers, seed_companies, max_depth, max_companies,
                   active_only, network, scanned_companies, companies_to_scan, cur,
                   officers, officer, officer_api_id, clusters, shared, dropped>>
    /\ steps' = steps + 1
    /\ UNCHANGED <<rlVars, apiVars, npVars, moreVars>>

\* (mutant) the officers kept whether resigned or not
FilterOfficers_All(os) == os

\* lines 82-86
FilterOfficers(os) ==
    IF active_only THEN SelectSeq(os, LAMBDA o : o.resigned_on = << >>) ELSE os

\* lines 79-102
FetchOfficers ==
    /\ pc = "officers"
    /\ \/ /\ Called("get_officers", cur[1], TRUE)
          /\ LET os == FilterOfficers(GetOfficers(cur[1]))
                 node == [key |-> cur[1],
                          company_status |-> GetCompanyProfile(cur[1]).company_status,
                          depth |-> cur[2],
                          officer_count |-> Len(os)]
             IN /\ officers' = os
                /\ network' = [network EXCEPT
                       !.companies = DictPut(@, cur[1], node),
                       !.statistics.depth_reached = Max(@, cur[2])]
          /\ scanned_companies' = scanned_companies \cup {cur[1]}
          /\ pc' = "officer_loop"
          /\ UNCHANGED <<failures, scanned_officers>>
       \/ /\ MayFail
          /\ Called("get_officers", cur[1], FALSE)
          /\ Raise("get_officers")
          /\ UNCHANGED <<officers, network, scanned_companies>>
    /\ UNCHANGED <<reg_status, reg_officers, seed_companies, max_depth, max_companies,
                   active_only, companies_to_scan, cur, officer, officer_api_id,
                   clusters, shared, dropped>>
    /\ steps' = steps + 1
    /\ UNCHANGED <<rlVars, apiVars, npVars, moreVars>>

\* lines 111-145: the director entry, the appointment and the connection
RecordOfficer(net, o) ==
    LET id == OfficerId(o)
        old == IF DictHas(net.directors, id) THEN DictGet(net.directors, id)
               ELSE [key |-> id, name |-> o.name, appointments |-> << >>,
                     company_count |-> 0]
        appts == Append(old.appointments,
                        [company_number |-> cur[1],
                         appointed_on |-> o.appointed_on,
                         resigned_on |-> o.resigned_on])
    IN [net EXCEPT
          !.directors = DictPut(@, id, [old EXCEPT !.appointments = appts,
                                                    !.company_count = Len(appts)]),
          !.connections = Append(@, [company_number |-> cur[1],
                                     director_id |-> id,
                                     director_name |-> o.name,
                                     depth |-> cur[2]])]

\* line 148
FanOut(o) == cur[2] < max_depth /\ OfficerId(o) \notin scanned_officers

\* lines 105-153: one turn of `for officer in officers` up to search_officers
OfficerLoop ==
    /\ pc = "officer_loop"
    /\ IF officers = << >>
       THEN /\ pc' = "loop"
            /\ UNCHANGED <<network, officers, officer, scanned_officers>>
       ELSE LET o == Head(officers) IN
            /\ officers' = Tail(officers)
            /\ network' = RecordOfficer(network, o)
            /\ IF ~FanOut(o)
               THEN UNCHANGED <<pc, officer, scanned_officers>>
               ELSE IF IsCorporateOfficer(o.name)
               THEN /\ scanned_officers' = scanned_officers \cup {OfficerId(o)}
                    /\ UNCHANGED <<pc, officer>>
               ELSE /\ officer' = o
                    /\ pc' = "search"
                    /\ UNCHANGED scanned_officers
    /\ UNCHANGED <<reg_status, reg_officers, seed_companies, max_depth, max_companies,
                   active_only, scanned_companies, companies_to_scan, cur,
                   officer_api_id, clusters, shared, calls, dropped, failures>>
    /\ steps' = steps + 1
    /\ UNCHANGED <<rlVars, apiVars, npVars, moreVars>>

\* lines 160-170: exact title match among the top five, else the first result
BestMatch(officer_results, officer_name) ==
    LET top == 1..(IF Len(officer_results) < 5 THEN Len(officer_results) ELSE 5)
        exact == {i \in top : Upper(officer_results[i].title) = Upper(officer_name)}
    IN  IF exact # {}
        THEN officer_results[CHOOSE i \in exact : \A j \in exact : i <= j]
        ELSE officer_results[1]

\* lines 156-176
SearchOfficer ==
    /\ pc = "search"
    /\ \/ /\ Called("search_officers", officer.name, TRUE)
          /\ UNCHANGED failures
          /\ LET officer_results == SearchOfficers(officer.name) IN
             IF officer_results = << >>
             THEN /\ scanned_officers' = scanned_officers \cup {OfficerId(officer)}
                  /\ pc' = "officer_loop"
                  /\ UNCHANGED officer_api_id
             ELSE LET match_id == BestMatch(officer_results, officer.name).links.self
                      parts == SplitSlash(match_id, << >>)
                  IN IF match_id = << >>
                     THEN /\ scanned_officers' = scanned_officers \cup {OfficerId(officer)}
                          /\ pc' = "officer_loop"
                          /\ UNCHANGED officer_api_id
                     ELSE IF Len(parts) < 2      \* IndexError, caught at line 210
                     THEN /\ pc' = "officer_loop"
                          /\ UNCHANGED <<scanned_officers, officer_api_id>>
                     ELSE /\ officer_api_id' = parts[Len(parts) - 1]
                          /\ pc' = "appointments"
                          /\ UNCHANGED scanned_officers
       \/ /\ MayFail
          /\ Called("search_officers", officer.name, FALSE)
          /\ Raise("search_officers")
          /\ UNCHANGED officer_api_id
    /\ UNCHANGED <<reg_status, reg_officers, seed_companies, max_depth, max_companies,
                   active_only, network, scanned_companies, companies_to_scan, cur,
                   officers, officer, clusters, shared, dropped>>
    /\ steps' = steps + 1
    /\ UNCHANGED <<rlVars, apiVars, npVars, moreVars>>

\* (mutant) the filter of lines 198-200 left out
Enqueued_AnyStatus(appt) ==
    /\ appt.appointed_to.company_number \notin scanned_companies
    /\ ~(active_only /\ appt.resigned_on # << >>)

\* lines 186-200: the appointment is put on the frontier
Enqueued(appt) ==
    /\ appt.appointed_to.company_number \notin scanned_companies
    /\ ~(active_only /\ appt.resigned_on # << >>)
    /\ ~(active_only /\ appt.appointed_to.company_status # "active")

\* lines 178-208
FetchAppointments ==
    /\ pc = "appointments"
    /\ \/ /\ Called("get_officer_appointments", officer_api_id, TRUE)
          /\ LET kept == SelectSeq(GetOfficerAppointments(officer_api_id), Enqueued) IN
               companies_to_scan' = companies_to_scan \o
                   [i \in 1..Len(kept) |->
                       <<kept[i].appointed_to.company_number, cur[2] + 1>>]
          /\ scanned_officers' = scanned_officers \cup {OfficerId(officer)}
          /\ pc' = "officer_loop"
          /\ UNCHANGED failures
       \/ /\ MayFail
          /\ Called("get_officer_appointments", officer_api_id, FALSE)
          /\ Raise("get_officer_appointments")
          /\ UNCHANGED companies_to_scan
    /\ UNCHANGED <<reg_status, reg_officers, seed_companies, max_depth, max_companies,
                   active_only, network, scanned_companies, cur, officers, officer,
                   officer_api_id, clusters, shared, dropped>>
    /\ steps' = steps + 1
    /\ UNCHANGED <<rlVars, apiVars, npVars, moreVars>>

\* lines 218-223: the loop is over, the statistics are filled in
Finish ==
    /\ pc = "loop"
    /\ ~LoopCondition
    /\ network' = [network EXCEPT
           !.statistics.total_companies = Len(network.companies),
           !.statistics.total_directors = Len(network.directors),
           !.statistics.total_connections = Len(network.connections)]
    /\ pc' = "done"
    /\ UNCHANGED <<reg_status, reg_officers, seed_companies, max_depth, max_companies,
                   active_only, scanned_companies, scanned_officers, companies_to_scan,
                   cur, officers, officer, officer_api_id, clusters, shared, calls, dropped,
                   failures>>
    /\ steps' = steps + 1
    /\ UNCHANGED <<rlVars, apiVars, npVars, moreVars>>

-----------------------------------------------------------------------------
(* find_shared_directors *)

\* lines 237-251: the directors with more than one appointment, in the
\* insertion order of network['directors']
SharedEntries(net) ==
    FlattenSeq([i \in 1..Len(net.directors) |->
        IF net.directors[i].company_count > 1
        THEN << [director_id |-> net.directors[i].key,
                 director_name |-> net.directors[i].name,
                 company_count |-> net.directors[i].company_count,
                 companies |-> [j \in 1..Len(net.directors[i].appointments) |->
                                   net.directors[i].appointments[j].company_number]] >>
        ELSE << >>])

\* line 254: shared.sort(key=company_count, reverse=True), a stable sort
RECURSIVE InsertByCount(_, _)
InsertByCount(sorted, e) ==
    IF sorted = << >> THEN <<e>>
    ELSE IF Head(sorted).company_count >= e.company_count
    THEN <<Head(sorted)>> \o InsertByCount(Tail(sorted), e)
    ELSE <<e>> \o sorted
RECURSIVE SortByCount(_, _)
SortByCount(es, sorted) ==
    IF es = << >> THEN sorted ELSE SortByCount(Tail(es), InsertByCount(sorted, Head(es)))

FindSharedDirectors(net) == SortByCount(SharedEntries(net), << >>)

-----------------------------------------------------------------------------
(* find_company_clusters *)

\* lines 269-284: graph[company] = the other companies sharing a director
Graph(net) ==
    [c \in DictKeys(net.companies) \cup
           {net.connections[i].company_number : i \in 1..Len(net.connections)} |->
        {net.connections[j].company_number : j \in
            {j \in 1..Len(net.connections) :
                /\ \E i \in 1..Len(net.connections) :
                      /\ net.connections[i].company_number = c
                      /\ net.connections[i].director_id = net.connections[j].director_id
                /\ net.connections[j].company_number # c}}]

\* lines 290-295; a set is iterated in an order the language does not fix,
\* here the order of SetToSeq
RECURSIVE Dfs(_, _, _)
RECURSIVE DfsEach(_, _, _)
Dfs(graph, node, st) ==
    DfsEach(graph, SetToSeq(graph[node]),
            [visited |-> st.visited \cup {node}, cluster |-> Append(st.cluster, node)])
DfsEach(graph, neighbors, st) ==
    IF neighbors = << >> THEN st
    ELSE IF Head(neighbors) \notin st.visited
    THEN DfsEach(graph, Tail(neighbors), Dfs(graph, Head(neighbors), st))
    ELSE DfsEach(graph, Tail(neighbors), st)

\* (mutant) single companies kept as clusters
KeepCluster_Any(cluster) == Len(cluster) >= 1

\* line 301
KeepCluster(cluster) == Len(cluster) > 1

\* lines 297-302
RECURSIVE Components(_, _, _, _)
Components(graph, keys, visited, acc) ==
    IF keys = << >> THEN acc
    ELSE IF Head(keys) \in visited THEN Components(graph, Tail(keys), visited, acc)
    ELSE LET r == Dfs(graph, Head(keys), [visited |-> visited, cluster |-> << >>])
         IN Components(graph, Tail(keys), r.visited,
                       IF KeepCluster(r.cluster) THEN Append(acc, r.cluster) ELSE acc)

\* line 305: clusters.sort(key=len, reverse=True), a stable sort
RECURSIVE InsertBySize(_, _)
InsertBySize(sorted, c) ==
    IF sorted = << >> THEN <<c>>
    ELSE IF Len(Head(sorted)) >= Len(c) THEN <<Head(sorted)>> \o InsertBySize(Tail(sorted), c)
    ELSE <<c>> \o sorted
RECURSIVE SortBySize(_, _)
SortBySize(cs, sorted) ==
    IF cs = << >> THEN sorted ELSE SortBySize(Tail(cs), InsertBySize(sorted, Head(cs)))

FindCompanyClusters(net) ==
    SortBySize(Components(Graph(net),
                          [i \in 1..Len(net.companies) |-> net.companies[i].key],
                          {}, << >>),
               << >>)

\* the caller runs the post-analysis on the returned snapshot
FindClusters ==
    /\ pc = "done"
    /\ shared' = FindSharedDirectors(network)
    /\ clusters' = FindCompanyClusters(network)
    /\ pc' = "analysed"
    /\ UNCHANGED <<reg_status, reg_officers, seed_companies, max_depth, max_companies,
                   active_only, network, scanned_companies, scanned_officers,
                   companies_to_scan, cur, officers, officer, officer_api_id, calls,
                   dropped, failures>>
    /\ steps' = steps + 1
    /\ UNCHANGED <<rlVars, apiVars, npVars, moreVars>>

-----------------------------------------------------------------------------
(* Specification of one crawl *)
NoThread == "none"
Threads == {"t1", "t2"}

RLIdle ==
    /\ rl_max_requests = 1
    /\ rl_period = 1
    /\ requests = << >>
    /\ lock = NoThread
    /\ clock = 0
    /\ rpc = [t \in Threads |-> "idle"]
    /\ now = [t \in Threads |-> 0]
    /\ wake = [t \in Threads |-> 0]
    /\ grants = << >>
    /\ started = [t \in Threads |-> 0]
    /\ returned = [t \in Threads |-> 0]
    /\ appended = [t \in Threads |-> 0]
    /\ remaining = 1

\* the companies a caller starts from
SeedPool == {"AA", "CC"}

SeedLists == UNION {[1..n -> SeedPool] : n \in 0..MaxSeeds}

Init ==
    /\ reg_status \in StatusMaps
    /\ reg_officers \in OfficerMaps
    /\ seed_companies \in SeedLists
    /\ max_depth \in -1..MaxDepthArg
    /\ max_companies \in 0..MaxCompaniesArg
    /\ active_only \in BOOLEAN
    /\ network = EmptyNetwork
    /\ scanned_companies = {}
    /\ scanned_officers = {}
    /\ companies_to_scan = [i \in 1..Len(seed_companies) |-> <<seed_companies[i], 0>>]
    /\ pc = "loop"
    /\ cur = <<"", 0>>
    /\ officers = << >>
    /\ officer = NoOfficer
    /\ officer_api_id = << >>
    /\ clusters = << >>
    /\ shared = << >>
    /\ calls = << >>
    /\ dropped = << >>
    /\ failures = 0
    /\ steps = 0
    /\ RLIdle
    /\ ApiIdle
    /\ NpIdle
    /\ MoreIdle

Next ==
    \/ Dequeue
    \/ FetchProfile
    \/ FetchOfficers
    \/ OfficerLoop
    \/ SearchOfficer
    \/ FetchAppointments
    \/ Finish
    \/ FindClusters

Spec == Init /\ [][Next]_vars

-----------------------------------------------------------------------------
(* Properties of the crawl *)

Returned == pc \in {"done", "analysed"}

\* the companies one officer hop away from company c: what expanding c puts
\* on the frontier when every call succeeds and nothing is visited yet
HopTargets(c) ==
    LET os == FilterOfficers(GetOfficers(c))
        ofOfficer(o) ==
            IF IsCorporateOfficer(o.name) \/ SearchOfficers(o.name) = << >> THEN {}
            ELSE LET link == BestMatch(SearchOfficers(o.name), o.name).links.self
                     parts == SplitSlash(link, << >>)
                     appts == GetOfficerAppointments(parts[Len(parts) - 1])
                 IN {appts[i].appointed_to.company_number : i \in
                        {i \in 1..Len(appts) :
                            /\ ~(active_only /\ appts[i].resigned_on # << >>)
                            /\ ~(active_only /\ appts[i].appointed_to.company_status # "active")}}
    IN  UNION {ofOfficer(os[i]) : i \in 1..Len(os)}

\* a company the crawl records when it gets to it
Recordable(c) == ~(active_only /\ reg_status[c] # "active")

RECURSIVE WithinHops(_)
WithinHops(k) ==
    IF k = 0 THEN {c \in Range(seed_companies) : Recordable(c)}
    ELSE LET prev == WithinHops(k - 1)
         IN prev \cup {c \in UNION {HopTargets(b) : b \in prev} : Recordable(c)}

\* the least k with c within k hops of a seed, given levels[k] = WithinHops(k)
MinHops(levels, c) ==
    CHOOSE k \in DOMAIN levels :
        /\ c \in levels[k]
        /\ \A j \in DOMAIN levels : j < k => c \notin levels[j]

\* C1: when scan_network returns, the depth of every recorded company is the
\* minimum number of officer hops from a seed company
C1_DepthIsMinHops ==
    pc = "done" =>
        LET levels == [k \in 0..Cardinality(Companies) |-> WithinHops(k)] IN
        \A i \in 1..Len(network.companies) :
            /\ network.companies[i].key \in levels[Cardinality(Companies)]
            /\ network.companies[i].depth = MinHops(levels, network.companies[i].key)

CallCount(op, arg) ==
    Cardinality({i \in 1..Len(calls) : calls[i].op = op /\ calls[i].arg = arg})

\* C2: within one run no company has its profile and its officers fetched
\* more than once
C2_FetchedAtMostOnce ==
    \A c \in Companies :
        ~(/\ CallCount("get_company_profile", c) > 1
          /\ CallCount("get_officers", c) > 1)

\* C3: the number of recorded companies never exceeds max_companies
C3_AtMostMaxCompanies == Len(network.companies) <= max_companies

C3_Witness ==
    /\ Returned
    /\ max_companies >= 1
    /\ Len(network.companies) = max_companies
    /\ Len(seed_companies) > max_companies
    /\ companies_to_scan # << >>

\* C4: no frontier item deeper than max_depth is expanded: no registry call
\* is made for it and no company, appointment or connection is recorded at
\* its depth
C4_NoExpansionBeyondMaxDepth ==
    /\ pc \in {"profile", "officers", "officer_loop", "search", "appointments"}
          => cur[2] <= max_depth
    /\ \A i \in 1..Len(calls) : calls[i].depth <= max_depth
    /\ \A i \in 1..Len(network.companies) : network.companies[i].depth <= max_depth
    /\ \A i \in 1..Len(network.connections) : network.connections[i].depth <= max_depth
    /\ \A i \in 1..Len(network.directors) :
          \A j \in 1..Len(network.directors[i].appointments) :
             \E k \in 1..Len(network.connections) :
                /\ network.connections[k].director_id = network.directors[i].key
                /\ network.connections[k].company_number =
                      network.directors[i].appointments[j].company_number

C4_Witness ==
    /\ Returned
    /\ \E i \in 1..Len(dropped) : dropped[i][2] > max_depth
    /\ calls = << >>
    /\ network.companies = << >>

\* C8: a registry call that raises never makes scan_network raise: the crawl
\* goes on with the frontier it had
C8_FailureIsNotFatal ==
    [][failures' > failures =>
          /\ pc' \in {"loop", "officer_loop"}
          /\ companies_to_scan' = companies_to_scan]_vars

C8_Witness == failures > 0 /\ Returned /\ Len(network.companies) >= 2

\* A bound on the work scan_network still has to do: the frontier items, the
\* officers not yet processed (of the company in hand and of every company
\* not yet visited, each worth the frontier items its appointments may add)
\* and the position inside the current turn of the loop.
StepsLeft(p) ==
    CASE p = "profile"      -> 6
      [] p = "officers"     -> 5
      [] p = "officer_loop" -> 4
      [] p = "search"       -> 3
      [] p = "appointments" -> 2
      [] p = "loop"         -> 2
      [] p = "done"         -> 1
      [] OTHER              -> 0

RECURSIVE SumLen(_, _)
SumLen(f, S) ==
    IF S = {} THEN 0
    ELSE LET c == CHOOSE c \in S : TRUE IN Len(f[c]) + SumLen(f, S \ {c})

WorkLeft ==
    LET perItem == 7
        perOfficer == (SumLen(reg_officers, Companies) + 1) * perItem
    IN  perItem * Len(companies_to_scan)
        + perOfficer * (SumLen(reg_officers, Companies \ scanned_companies)
                        + Len(officers)
                        + (IF pc \in {"search", "appointments"} THEN 1 ELSE 0))
        + StepsLeft(pc)

\* WorkLeft in the initial state of the crawl
InitialWork ==
    7 * Len(seed_companies)
    + (SumLen(reg_officers, Companies) + 1) * 7 * SumLen(reg_officers, Companies)
    + StepsLeft("loop")

\* C9: scan_network terminates (the steps taken plus the bound WorkLeft on the
\* work that is left never exceed the work there was at the start, so the
\* number of steps is bounded, and it is always at a position of its loop,
\* where a step is possible, until it has returned),
\* and when its loop stops the frontier is empty or the number of visited
\* companies has reached max_companies
C9_Terminates ==
    /\ WorkLeft >= 0
    /\ steps + WorkLeft <= InitialWork
    /\ pc \in {"loop", "profile", "officers", "officer_loop", "search",
              "appointments", "done", "analysed"}
    /\ pc = "done" =>
          \/ companies_to_scan = << >>
          \/ Cardinality(scanned_companies) >= max_companies

C9_Witness ==
    /\ pc = "done"
    /\ companies_to_scan # << >>
    /\ failures > 0
    /\ Cardinality(scanned_companies) = max_companies

\* two companies have a connection with the same director_id
SharedDirectorLink(net, a, b) ==
    /\ a # b
    /\ \E i, j \in 1..Len(net.connections) :
          /\ net.connections[i].company_number = a
          /\ net.connections[j].company_number = b
          /\ net.connections[i].director_id = net.connections[j].director_id

RECURSIVE LinkedWithin(_, _, _)
LinkedWithin(net, S, k) ==
    IF k = 0 THEN S
    ELSE LinkedWithin(net,
                      S \cup {b \in Companies : \E a \in S : SharedDirectorLink(net, a, b)},
                      k - 1)

\* C10: every cluster of find_company_clusters has at least two companies and
\* any two of its companies are joined by a path of shared-director links
C10_ClustersConnected ==
    pc = "analysed" =>
        \A n \in 1..Len(clusters) :
            /\ Len(clusters[n]) >= 2
            /\ \A a, b \in Range(clusters[n]) :
                  b \in LinkedWithin(network, {a}, Cardinality(Companies))

C10_Witness ==
    /\ pc = "analysed"
    /\ \E n \in 1..Len(clusters) : Len(clusters[n]) = 3
    /\ \E a, b \in Range(clusters[1]) : a # b /\ ~SharedDirectorLink(network, a, b)

\* the officer names of the registry
OfficerNames ==
    UNION {{reg_officers[c][j].name : j \in 1..Len(reg_officers[c])} : c \in Companies}

\* the companies the officer list of which, as the crawl reads it, has name n
OfficeHolder(n) ==
    {c \in Companies :
        \E j \in 1..Len(FilterOfficers(reg_officers[c])) :
            FilterOfficers(reg_officers[c])[j].name = n}

\* a crawl from the single seed a with max_depth = 1 in which no call fails
\* and the cap is out of reach, director n being an officer of a and of the
\* active company b, and of no other
SharedDirectorScenario(a, b, n) ==
    /\ seed_companies = <<a>>
    /\ max_depth = 1
    /\ max_companies >= Cardinality(Companies)
    /\ failures = 0
    /\ a # b
    /\ reg_status[a] = "active"
    /\ reg_status[b] = "active"
    /\ ~IsCorporateOfficer(n)
    /\ OfficeHolder(n) = {a, b}

\* C11: with a single seed, max_depth = 1 and a director who is an officer of
\* the seed and of a second active company, the returned snapshot holds both
\* companies, the second at depth 1, and find_shared_directors has exactly one
\* entry for the director, with company_count = 2, whatever the appointment
\* dates are
C11_SharedDirectorScenario ==
    pc = "analysed" =>
        \A a, b \in Companies : \A n \in OfficerNames :
            SharedDirectorScenario(a, b, n) =>
                /\ DictHas(network.companies, a)
                /\ DictHas(network.companies, b)
                /\ DictGet(network.companies, b).depth = 1
                /\ Cardinality({i \in 1..Len(shared) : shared[i].director_name = n}) = 1
                /\ \A i \in 1..Len(shared) :
                      shared[i].director_name = n => shared[i].company_count = 2

\* the name holds one of the corporate-entity markers, in any letter case
HasCorporateMarker(name) ==
    \E m \in {<<"L","I","M","I","T","E","D">>, <<"L","T","D">>, <<"P","L","C">>,
               <<"L","L","P">>, <<"C","O","M","P","A","N","Y">>,
               <<"C","O","R","P","O","R","A","T","E">>} :
        \E i \in 1..Len(name) :
            /\ i + Len(m) - 1 <= Len(name)
            /\ \A k \in 1..Len(m) : UpperChar(name[i + k - 1]) = m[k]

\* C12: for an officer whose name holds a corporate-entity marker the crawler
\* records the connection with the company, makes no search_officers and no
\* get_officer_appointments call and puts nothing on the frontier
C12_CorporateOfficerNotExpanded ==
    [][/\ (pc = "officer_loop" /\ officers # << >>
            /\ HasCorporateMarker(Head(officers).name)) =>
              /\ Len(network'.connections) = Len(network.connections) + 1
              /\ network'.connections[Len(network'.connections)].company_number = cur[1]
              /\ network'.connections[Len(network'.connections)].director_name
                    = Head(officers).name
              /\ pc' = "officer_loop"
              /\ calls' = calls
              /\ companies_to_scan' = companies_to_scan
       /\ pc' \in {"search", "appointments"} => ~HasCorporateMarker(officer'.name)
       /\ Len(calls') > Len(calls) =>
              /\ calls'[Len(calls')].op = "search_officers"
                    => ~HasCorporateMarker(calls'[Len(calls')].arg)
              /\ calls'[Len(calls')].op = "get_officer_appointments"
                    => ~HasCorporateMarker(officer.name)
       /\ Len(companies_to_scan') > Len(companies_to_scan)
              => ~HasCorporateMarker(officer.name)]_vars

\* a corporate officer was met above max_depth, next to an officer who was
\* searched and whose appointments were put on the frontier
C12_Witness ==
    /\ Returned
    /\ \E i \in 1..Len(network.connections) :
          /\ HasCorporateMarker(network.connections[i].director_name)
          /\ network.connections[i].depth < max_depth
          /\ network.connections[i].director_id \in scanned_officers
          /\ \E j \in 1..Len(calls) :
                /\ calls[j].op = "get_officer_appointments"
                /\ calls[j].ok
                /\ calls[j].depth = network.connections[i].depth

\* C13: with active_only, whatever is put on the frontier comes from an
\* appointment without resignation date to a company whose status is active
C13_ActiveOnlyFrontier ==
    [][active_only /\ Len(companies_to_scan') > Len(companies_to_scan) =>
          \A k \in (Len(companies_to_scan) + 1)..Len(companies_to_scan') :
              /\ reg_status[companies_to_scan'[k][1]] = "active"
              /\ \E c \in {companies_to_scan'[k][1]} :
                    \E j \in 1..Len(reg_officers[c]) :
                        /\ Upper(reg_officers[c][j].name) = officer_api_id
                        /\ reg_officers[c][j].resigned_on = NoDate]_vars

\* with active_only, an appointment lookup returned an appointment that was
\* kept off the frontier and one that went on it
C13_Witness ==
    /\ Returned
    /\ active_only
    /\ \E i \in 1..Len(calls) :
          /\ calls[i].op = "get_officer_appointments"
          /\ calls[i].ok
          /\ LET appts == GetOfficerAppointments(calls[i].arg) IN
                /\ \E a \in 1..Len(appts) :
                      /\ \/ appts[a].resigned_on # NoDate
                         \/ appts[a].appointed_to.company_status # "active"
                      /\ ~DictHas(network.companies, appts[a].appointed_to.company_number)
                /\ \E b \in 1..Len(appts) :
                      /\ DictHas(network.companies, appts[b].appointed_to.company_number)
                      /\ DictGet(network.companies,
                                 appts[b].appointed_to.company_number).depth
                            = calls[i].depth + 1

\* max_companies = 1 and two different seeds, both active and within
\* max_depth, in a crawl where no call has failed
TwoEligibleSeeds ==
    /\ max_companies = 1
    /\ max_depth >= 0
    /\ Len(seed_companies) = 2
    /\ seed_companies[1] # seed_companies[2]
    /\ \A i \in 1..2 : reg_status[seed_companies[i]] = "active"
    /\ failures = 0

\* C14: with max_companies = 1 and two eligible seeds no registry call is
\* made for the second seed, and the returned snapshot holds exactly one
\* company, the first seed
C14_SecondSeedNotExpanded ==
    TwoEligibleSeeds =>
        /\ \A i \in 1..Len(calls) :
              calls[i].op \in {"get_company_profile", "get_officers"}
                  => calls[i].arg # seed_companies[2]
        /\ cur[1] # seed_companies[2]
        /\ Returned =>
              /\ Len(network.companies) = 1
              /\ network.companies[1].key = seed_companies[1]
              /\ network.statistics.total_companies = 1

C14_Witness ==
    /\ TwoEligibleSeeds
    /\ Returned
    /\ Len(network.companies) = 1
    /\ \E i \in 1..Len(companies_to_scan) :
          companies_to_scan[i] = <<seed_companies[2], 0>>
    /\ \E i \in 1..Len(calls) : calls[i].op = "get_officer_appointments"

\* the greatest depth among the recorded companies, 0 when there is none
RECURSIVE DeepestCompany(_)
DeepestCompany(cs) ==
    IF cs = << >> THEN 0
    ELSE LET rest == DeepestCompany(Tail(cs))
         IN IF Head(cs).depth > rest THEN Head(cs).depth ELSE rest

\* C17: in the returned snapshot the three totals are the sizes of the
\* companies map, the directors map and the connections list, and
\* depth_reached is the greatest depth of a recorded company
C17_StatisticsMatchSnapshot ==
    Returned =>
        /\ network.statistics.total_companies = Cardinality(DictKeys(network.companies))
        /\ network.statistics.total_directors = Cardinality(DictKeys(network.directors))
        /\ network.statistics.total_connections = Len(network.connections)
        /\ network.statistics.depth_reached = DeepestCompany(network.companies)

\* a crawl that met a failure and stopped on the cap with companies two
\* levels deep
C17_Witness ==
    /\ Returned
    /\ failures > 0
    /\ companies_to_scan # << >>
    /\ Cardinality(scanned_companies) = max_companies
    /\ network.statistics.depth_reached >= 1
    /\ network.statistics.total_directors >= 2
    /\ network.statistics.total_connections > network.statistics.total_directors

\* C18: within one crawl search_officers is called at most once for a
\* director identity (name and appointment date), whatever the outcome of
\* the earlier attempt was
C18_OneSearchPerIdentity ==
    \A i, j \in 1..Len(calls) :
        /\ i < j
        /\ calls[i].op = "search_officers"
        /\ calls[j].op = "search_officers"
        => calls[i].officer_id # calls[j].officer_id

\* C23: a dequeued company whose profile fetch or officer-list fetch fails
\* yields nothing: from its dequeue to the failure the snapshot (companies,
\* directors, connections, statistics) does not change and the frontier
\* loses the dequeued item only
C23_FailedItemYieldsNothing ==
    [][/\ (pc = "loop" /\ pc' = "profile") =>
              /\ network' = network
              /\ <<cur'>> \o companies_to_scan' = companies_to_scan
       /\ pc = "profile" =>
              /\ network' = network
              /\ companies_to_scan' = companies_to_scan
       /\ (pc = "officers" /\ failures' > failures) =>
              /\ network' = network
              /\ companies_to_scan' = companies_to_scan]_vars

\* the officer-list fetch of a company failed after another company had
\* been recorded and with items waiting on the frontier
C23_Witness ==
    /\ pc = "loop"
    /\ failures > 0
    /\ calls # << >>
    /\ calls[Len(calls)].op = "get_officers"
    /\ ~calls[Len(calls)].ok
    /\ network.companies # << >>
    /\ ~DictHas(network.companies, calls[Len(calls)].arg)
    /\ companies_to_scan # << >>

\* officer o is listed by company c without a resignation date
ActiveOfficerOf(c, id) ==
    \E j \in 1..Len(reg_officers[c]) :
        /\ reg_officers[c][j].name \o <<"_">> \o reg_officers[c][j].appointed_on = id
        /\ reg_officers[c][j].resigned_on = NoDate

\* C24: with active_only, every recorded company is active, every recorded
\* appointment and connection is that of an officer without resignation
\* date, and a company that is not active is neither recorded nor expanded
C24_ActiveOnlyRecords ==
    active_only =>
        /\ \A i \in 1..Len(network.companies) :
              /\ network.companies[i].company_status = "active"
              /\ reg_status[network.companies[i].key] = "active"
        /\ \A i \in 1..Len(network.directors) :
              \A j \in 1..Len(network.directors[i].appointments) :
                 /\ network.directors[i].appointments[j].resigned_on = NoDate
                 /\ ActiveOfficerOf(network.directors[i].appointments[j].company_number,
                                    network.directors[i].key)
        /\ \A i \in 1..Len(network.connections) :
              ActiveOfficerOf(network.connections[i].company_number,
                              network.connections[i].director_id)
        /\ \A i \in 1..Len(calls) :
              calls[i].op = "get_officers" => reg_status[calls[i].arg] = "active"
        /\ pc \in {"officers", "officer_loop", "search", "appointments"}
              => reg_status[cur[1]] = "active"

\* with active_only, a dissolved seed had its profile fetched and was left
\* out, next to a company that was recorded with its officers
C24_Witness ==
    /\ Returned
    /\ active_only
    /\ \E i \in 1..Len(calls) :
          /\ calls[i].op = "get_company_profile"
          /\ calls[i].ok
          /\ reg_status[calls[i].arg] # "active"
          /\ ~DictHas(network.companies, calls[i].arg)
    /\ network.companies # << >>
    /\ network.connections # << >>

-----------------------------------------------------------------------------
(* A crawl over a registry in which company AA lists one officer twice, as  *)
(* director and as secretary appointed on the same day                      *)

TwoRoles == << Off(ANN, <<"1">>, NoDate), Off(ANN, <<"1">>, NoDate) >>

TwoRolesInit ==
    /\ reg_status \in StatusMaps
    /\ reg_officers \in {[m EXCEPT !["AA"] = TwoRoles] : m \in OfficerMaps}
    /\ seed_companies \in SeedLists
    /\ max_depth \in 0..MaxDepthArg
    /\ max_companies \in 1..MaxCompaniesArg
    /\ active_only \in BOOLEAN
    /\ network = EmptyNetwork
    /\ scanned_companies = {}
    /\ scanned_officers = {}
    /\ companies_to_scan = [i \in 1..Len(seed_companies) |-> <<seed_companies[i], 0>>]
    /\ pc = "loop"
    /\ cur = <<"", 0>>
    /\ officers = << >>
    /\ officer = NoOfficer
    /\ officer_api_id = << >>
    /\ clusters = << >>
    /\ shared = << >>
    /\ calls = << >>
    /\ dropped = << >>
    /\ failures = 0
    /\ steps = 0
    /\ RLIdle
    /\ ApiIdle
    /\ NpIdle
    /\ MoreIdle

TwoRolesSpec == TwoRolesInit /\ [][Next]_vars

\* the companies at which director d of the snapshot has an appointment
AppointedAt(d) == {d.appointments[j].company_number : j \in 1..Len(d.appointments)}

\* C22: find_shared_directors returns exactly the directors connected to
\* multiple companies: every entry has appointments at two or more distinct
\* companies, and every director with appointments at two or more distinct
\* companies has an entry
C22_SharedMeansSeveralCompanies ==
    pc = "analysed" =>
        /\ \A i \in 1..Len(shared) :
              /\ DictHas(network.directors, shared[i].director_id)
              /\ Cardinality(AppointedAt(DictGet(network.directors,
                                                 shared[i].director_id))) >= 2
        /\ \A k \in 1..Len(network.directors) :
              Cardinality(AppointedAt(network.directors[k])) >= 2
                  => \E i \in 1..Len(shared) :
                        shared[i].director_id = network.directors[k].key

-----------------------------------------------------------------------------
(* RateLimiter.acquire, called by the threads of Threads *)

ScanIdle ==
    /\ reg_status = [c \in Companies |-> "active"]
    /\ reg_officers = [c \in Companies |-> << Off(ANN, <<"1">>, NoDate) >>]
    /\ seed_companies = << >>
    /\ max_depth = 0
    /\ max_companies = 0
    /\ active_only = TRUE
    /\ network = EmptyNetwork
    /\ scanned_companies = {}
    /\ scanned_officers = {}
    /\ companies_to_scan = << >>
    /\ pc = "off"
    /\ cur = <<"", 0>>
    /\ officers = << >>
    /\ officer = NoOfficer
    /\ officer_api_id = << >>
    /\ clusters = << >>
    /\ shared = << >>
    /\ calls = << >>
    /\ dropped = << >>
    /\ failures = 0
    /\ steps = 0

RLInit ==
    /\ rl_max_requests \in 1..MaxRequests
    /\ rl_period \in 1..MaxPeriod
    /\ requests = << >>
    /\ lock = NoThread
    /\ clock = 0
    /\ rpc = [t \in Threads |-> "idle"]
    /\ now = [t \in Threads |-> 0]
    /\ wake = [t \in Threads |-> 0]
    /\ grants = << >>
    /\ started = [t \in Threads |-> 0]
    /\ returned = [t \in Threads |-> 0]
    /\ appended = [t \in Threads |-> 0]
    /\ remaining = rl_max_requests
    /\ ScanIdle
    /\ ApiIdle
    /\ NpIdle
    /\ MoreIdle

\* lines 36-37 and 46-47: while self.requests and self.requests[0] < now - self.period
RECURSIVE Pruned(_, _)
Pruned(reqs, t_now) ==
    IF reqs # << >> /\ Head(reqs) < t_now - rl_period
    THEN Pruned(Tail(reqs), t_now)
    ELSE reqs

\* (mutant) the lock is entered without waiting for it
CanEnter_NoLock(t) == TRUE

\* `with self.lock` of line 32 lets the thread in
CanEnter(t) == lock = NoThread

\* (mutant) the lock stays with the thread that returns
Released_Kept(t) == t

\* the holder of self.lock once thread t has left the `with` block
Released(t) == NoThread

InCriticalSection(t) == rpc[t] \in {"prune", "sleep", "record"}

\* a thread calls acquire() and waits for the lock
Call(t) ==
    /\ rpc[t] = "idle"
    /\ started[t] < MaxCalls
    /\ started' = [started EXCEPT ![t] = @ + 1]
    /\ rpc' = [rpc EXCEPT ![t] = "lock"]
    /\ UNCHANGED <<rl_max_requests, rl_period, requests, lock, clock, now, wake,
                   grants, returned, appended>>
    /\ UNCHANGED <<scanVars, apiVars, npVars, moreVars, remaining>>

\* lines 32-33: the lock is taken and the time read
Enter(t) ==
    /\ rpc[t] = "lock"
    /\ CanEnter(t)
    /\ lock' = t
    /\ now' = [now EXCEPT ![t] = clock]
    /\ rpc' = [rpc EXCEPT ![t] = "prune"]
    /\ UNCHANGED <<rl_max_requests, rl_period, requests, clock, wake, grants,
                   started, returned, appended>>
    /\ UNCHANGED <<scanVars, apiVars, npVars, moreVars, remaining>>

\* lines 36-43: pruning, the limit test and the decision to sleep
PruneAndCheck(t) ==
    /\ rpc[t] = "prune"
    /\ LET kept == Pruned(requests, now[t]) IN
         /\ requests' = kept
         /\ IF Len(kept) >= rl_max_requests /\ Head(kept) + rl_period - now[t] > 0
            THEN /\ wake' = [wake EXCEPT ![t] = Head(kept) + rl_period]
                 /\ rpc' = [rpc EXCEPT ![t] = "sleep"]
            ELSE /\ rpc' = [rpc EXCEPT ![t] = "record"]
                 /\ UNCHANGED wake
    /\ UNCHANGED <<rl_max_requests, rl_period, lock, clock, now, grants, started,
                   returned, appended>>
    /\ UNCHANGED <<scanVars, apiVars, npVars, moreVars, remaining>>

\* lines 43-47: time.sleep returns, at the wake time or later; the time is
\* read again and the deque pruned again
WakeUp(t) ==
    /\ rpc[t] = "sleep"
    /\ clock >= wake[t]
    /\ now' = [now EXCEPT ![t] = clock]
    /\ requests' = Pruned(requests, clock)
    /\ rpc' = [rpc EXCEPT ![t] = "record"]
    /\ UNCHANGED <<rl_max_requests, rl_period, lock, clock, wake, grants, started,
                   returned, appended>>
    /\ UNCHANGED <<scanVars, apiVars, npVars, moreVars, remaining>>

\* line 50 and the end of the `with` block: the timestamp is recorded, the
\* lock released and acquire() returns
Record(t) ==
    /\ rpc[t] = "record"
    /\ requests' = Append(requests, now[t])
    /\ grants' = Append(grants, now[t])
    /\ appended' = [appended EXCEPT ![t] = @ + 1]
    /\ returned' = [returned EXCEPT ![t] = @ + 1]
    /\ lock' = Released(t)
    /\ rpc' = [rpc EXCEPT ![t] = "idle"]
    /\ UNCHANGED <<rl_max_requests, rl_period, clock, now, wake, started>>
    /\ UNCHANGED <<scanVars, apiVars, npVars, moreVars, remaining>>

\* time passes; the clock is followed as long as calls may start or a
\* thread sleeps
Tick ==
    /\ \/ clock < MaxClock
       \/ \E t \in Threads : rpc[t] = "sleep" /\ clock < wake[t]
    /\ clock' = clock + 1
    /\ UNCHANGED <<rl_max_requests, rl_period, requests, lock, rpc, now, wake,
                   grants, started, returned, appended>>
    /\ UNCHANGED <<scanVars, apiVars, npVars, moreVars, remaining>>

RLNext ==
    \/ \E t \in Threads : Call(t)
    \/ \E t \in Threads : Enter(t)
    \/ \E t \in Threads : PruneAndCheck(t)
    \/ \E t \in Threads : WakeUp(t)
    \/ \E t \in Threads : Record(t)
    \/ Tick

RLSpec == RLInit /\ [][RLNext]_vars

\* time advances, every thread keeps running and the lock is granted fairly
RLFairSpec ==
    /\ RLSpec
    /\ WF_vars(Tick)
    /\ \A t \in Threads :
          /\ SF_vars(Enter(t))
          /\ WF_vars(PruneAndCheck(t))
          /\ WF_vars(WakeUp(t))
          /\ WF_vars(Record(t))

-----------------------------------------------------------------------------
(* Properties of the rate limiter *)

GrantsIn(from, to) == Cardinality({i \in 1..Len(grants) : from <= grants[i] /\ grants[i] < to})

\* C5: no time window of length period holds more than max_requests granted
\* acquisitions
C5_WindowHoldsAtMostMaxRequests ==
    \A w \in 0..(MaxClock + MaxPeriod) : GrantsIn(w, w + rl_period) <= rl_max_requests

\* C6: the pruning, limit test and recording of one acquire() call form one
\* critical section: at most one thread is inside it, that thread holds the
\* lock, and the deque changes only by a step of that thread
C6_CriticalSection ==
    [][/\ \A t, u \in Threads :
             InCriticalSection(t)' /\ InCriticalSection(u)' => t = u
       /\ \A t \in Threads : InCriticalSection(t)' => lock' = t
       /\ \A t \in Threads :
             InCriticalSection(t) /\ requests' # requests => rpc'[t] # rpc[t]
       /\ requests' # requests => \E t \in Threads : InCriticalSection(t)]_vars

C6_Witness ==
    \E t, u \in Threads :
        /\ t # u
        /\ rpc[t] = "sleep"
        /\ rpc[u] = "lock"
        /\ Len(requests) >= rl_max_requests

\* C7: acquire() never refuses: every call returns in the end, and a call
\* that has returned has appended exactly one timestamp
C7_EveryCallReturns ==
    /\ \A t \in Threads : (rpc[t] # "idle") ~> (rpc[t] = "idle")
    /\ [](\A t \in Threads :
            /\ appended[t] = returned[t]
            /\ rpc[t] = "idle" => returned[t] = started[t]
            /\ rpc[t] # "idle" => returned[t] = started[t] - 1)

C7_Witness ==
    /\ \A t \in Threads : rpc[t] = "idle" /\ returned[t] = started[t]
    /\ \E t \in Threads : returned[t] >= 1 /\ wake[t] > 0 /\ now[t] >= wake[t]
    /\ Len(grants) > rl_max_requests

-----------------------------------------------------------------------------
(* RateLimiter.get_remaining_requests, called between the acquire() calls *)

\* lines 54-59: under the lock, the time is read, the deque pruned and the
\* difference returned
GetRemainingRequests(t) ==
    /\ rpc[t] = "idle"
    /\ CanEnter(t)
    /\ requests' = Pruned(requests, clock)
    /\ remaining' = rl_max_requests - Len(requests')
    /\ UNCHANGED <<rl_max_requests, rl_period, lock, clock, rpc, now, wake, grants,
                   started, returned, appended>>
    /\ UNCHANGED <<scanVars, apiVars, npVars, moreVars>>

RLQueryNext ==
    \/ RLNext
    \/ \E t \in Threads : GetRemainingRequests(t)

RLQuerySpec == RLInit /\ [][RLQueryNext]_vars

\* C20: the value get_remaining_requests returns lies between 0 and
\* max_requests
C20_RemainingInRange == remaining \in 0..rl_max_requests

-----------------------------------------------------------------------------
(* CompaniesHouseClient._make_request and get_officers.  The officers of   *)
(* the company are numbered 1..srv_total in the order of the registry.     *)

MAX_RETRIES == 3
RETRY_DELAY == 2

NoParams == [start_index |-> -1, items_per_page |-> -1]
NoHeader == -1
RetryAfterHeaders == {NoHeader, 1}

Min(a, b) == IF a <= b THEN a ELSE b

\* line 222: self._make_request(url); the params built at lines 217-220 are
\* not handed over, the request goes out without query string
RequestParams(params) == NoParams

\* what the registry answers to GET /company/{number}/officers
ServerPage(params) ==
    LET first == IF params.start_index = -1 THEN 0 ELSE params.start_index
        size == IF params.items_per_page = -1 THEN srv_page_size
                ELSE params.items_per_page
        n == Min(size, Max(srv_total - first, 0))
    IN  [items |-> [i \in 1..n |-> first + i], total_results |-> srv_total]

ApiInit ==
    /\ srv_total \in 0..MaxOfficers
    /\ srv_page_size \in 1..MaxPageSize
    /\ items_per_page \in 1..MaxPageSize
    /\ start_index = 0
    /\ all_officers = << >>
    /\ attempt = 0
    /\ apc = "request"
    /\ req_errors = 0
    /\ throttles = 0
    /\ errs = 0
    /\ slept = << >>
    /\ trips = 0
    /\ call_slept = << >>
    /\ ScanIdle
    /\ RLIdle
    /\ NpIdle
    /\ MoreIdle

\* (mutant) the same delay after every failed attempt
Backoff_Constant(a) == RETRY_DELAY

\* line 74: the delay after the failure of attempt a
Backoff(a) == RETRY_DELAY * (a + 1)

\* lines 60-63: the answer is a 429; sleep, continue; when that was the last
\* turn of the for loop, line 76 raises
Throttled(header) ==
    /\ apc = "request"
    /\ throttles < MaxThrottled
    /\ throttles' = throttles + 1
    /\ LET retry_after == IF header = NoHeader THEN RETRY_DELAY ELSE header
       IN /\ slept' = Append(slept, retry_after)
          /\ call_slept' = Append(call_slept, [after |-> "429", secs |-> retry_after])
    /\ trips' = trips + 1
    /\ attempt' = attempt + 1
    /\ apc' = IF attempt + 1 < MAX_RETRIES THEN "request" ELSE "raised"
    /\ UNCHANGED <<srv_total, srv_page_size, items_per_page, start_index,
                   all_officers, req_errors, errs>>
    /\ UNCHANGED <<scanVars, rlVars, npVars, moreVars>>

\* lines 66, 70-74: the request raises a RequestException (raise_for_status
\* included); re-raised on the last attempt, else sleep and go round again
RequestFails ==
    /\ apc = "request"
    /\ errs < MaxErrors
    /\ errs' = errs + 1
    /\ req_errors' = req_errors + 1
    /\ trips' = trips + 1
    /\ IF attempt = MAX_RETRIES - 1
       THEN /\ apc' = "raised"
            /\ UNCHANGED <<attempt, slept, call_slept>>
       ELSE /\ slept' = Append(slept, Backoff(attempt))
            /\ call_slept' = Append(call_slept,
                                    [after |-> "error", secs |-> Backoff(attempt)])
            /\ attempt' = attempt + 1
            /\ UNCHANGED apc
    /\ UNCHANGED <<srv_total, srv_page_size, items_per_page, start_index,
                   all_officers, throttles>>
    /\ UNCHANGED <<scanVars, rlVars, npVars, moreVars>>

\* lines 67 and 222-232: the response is returned to get_officers, which
\* takes its items and either stops or moves start_index on
PageArrives ==
    /\ apc = "request"
    /\ LET params == [start_index |-> start_index, items_per_page |-> items_per_page]
           data == ServerPage(RequestParams(params))
       IN /\ all_officers' = all_officers \o data.items
          /\ IF start_index + Len(data.items) >= data.total_results
             THEN /\ apc' = "returned"
                  /\ trips' = trips + 1
                  /\ UNCHANGED <<start_index, attempt, req_errors, call_slept>>
             ELSE /\ start_index' = start_index + items_per_page
                  /\ attempt' = 0
                  /\ req_errors' = 0
                  /\ trips' = 0
                  /\ call_slept' = << >>
                  /\ UNCHANGED apc
    /\ UNCHANGED <<srv_total, srv_page_size, items_per_page, throttles, errs, slept>>
    /\ UNCHANGED <<scanVars, rlVars, npVars, moreVars>>

ApiNext ==
    \/ \E header \in RetryAfterHeaders : Throttled(header)
    \/ RequestFails
    \/ PageArrives

ApiSpec == ApiInit /\ [][ApiNext]_vars

\* C15: a 429 answer is retried and never escalated: _make_request does not
\* raise when the only answers it got were 429s
C15_ThrottlingNeverEscalated == ~(apc = "raised" /\ req_errors = 0)

\* C16: get_officers returns every officer of the company exactly once, in
\* the order of the registry
C16_AllOfficersOnce ==
    apc = "returned" => all_officers = [i \in 1..srv_total |-> i]

\* the delays of the call in hand that followed an answer of the given kinds
RECURSIVE DelaysAfter(_, _)
DelaysAfter(sleeps, kinds) ==
    IF sleeps = << >> THEN << >>
    ELSE (IF Head(sleeps).after \in kinds THEN <<Head(sleeps).secs>> ELSE << >>)
         \o DelaysAfter(Tail(sleeps), kinds)

Increasing(ds) == \A i \in 1..Len(ds) : \A j \in 1..Len(ds) : i < j => ds[i] < ds[j]

\* one call makes at most MAX_RETRIES round trips and raises only once they
\* are used up
WithinCeiling ==
    /\ trips <= MAX_RETRIES
    /\ apc = "request" => trips < MAX_RETRIES /\ trips = attempt
    /\ apc = "raised" => trips = MAX_RETRIES

-----------------------------------------------------------------------------
(* NameParser.normalize_name *)

LTD == <<"L","T","D">>
LIMITED == <<"L","I","M","I","T","E","D">>

WhitespaceChars == {" ", "\t"}
IsSpace(ch) == ch \in WhitespaceChars
IsLetter(ch) == \E i \in 1..26 : ch = LowerCase[i] \/ ch = UpperCase[i]

\* the characters of \w
IsWordChar(ch) ==
    \/ IsLetter(ch)
    \/ ch \in {"0","1","2","3","4","5","6","7","8","9","_"}

RECURSIVE LStrip(_)
LStrip(s) == IF s # << >> /\ IsSpace(Head(s)) THEN LStrip(Tail(s)) ELSE s

RECURSIVE RStrip(_)
RStrip(s) ==
    IF s # << >> /\ IsSpace(s[Len(s)]) THEN RStrip(SubSeq(s, 1, Len(s) - 1)) ELSE s

\* str.strip()
Strip(s) == RStrip(LStrip(s))

\* line 159: re.sub(r'\s+', ' ', name)
RECURSIVE CollapseSpaces(_)
CollapseSpaces(s) ==
    IF s = << >> THEN << >>
    ELSE IF IsSpace(Head(s)) THEN <<" ">> \o CollapseSpaces(LStrip(Tail(s)))
    ELSE <<Head(s)>> \o CollapseSpaces(Tail(s))

\* str.endswith
EndsWith(s, suffix) ==
    /\ Len(s) >= Len(suffix)
    /\ SubSeq(s, Len(s) - Len(suffix) + 1, Len(s)) = suffix

\* lines 162-167, in the order of the dict
Replacements ==
    << [old |-> <<"L","T","D",".">>, new |-> LIMITED],
       [old |-> LTD, new |-> LIMITED],
       [old |-> <<"P",".","L",".","C",".">>, new |-> <<"P","L","C">>],
       [old |-> <<"L",".","L",".","P",".">>, new |-> <<"L","L","P">>] >>

\* (mutant) the suffix left as it is
StandardSuffix_Keep(name, r) == name

\* lines 170-171
StandardSuffix(name, r) ==
    IF EndsWith(name, r.old)
    THEN SubSeq(name, 1, Len(name) - Len(r.old)) \o r.new
    ELSE name

\* lines 169-171
RECURSIVE ApplyReplacements(_, _)
ApplyReplacements(name, k) ==
    IF k > Len(Replacements) THEN name
    ELSE ApplyReplacements(StandardSuffix(name, Replacements[k]), k + 1)

\* line 174: re.sub(r'[^\w\s&]', '', name)
RemovePunctuation(s) ==
    SelectSeq(s, LAMBDA ch : IsWordChar(ch) \/ IsSpace(ch) \/ ch = "&")

\* str.split()
RECURSIVE SplitWords(_, _)
SplitWords(s, word) ==
    IF s = << >> THEN (IF word = << >> THEN << >> ELSE <<word>>)
    ELSE IF IsSpace(Head(s))
    THEN (IF word = << >> THEN << >> ELSE <<word>>) \o SplitWords(Tail(s), << >>)
    ELSE SplitWords(Tail(s), Append(word, Head(s)))

\* ' '.join(words)
RECURSIVE JoinWords(_)
JoinWords(words) ==
    IF words = << >> THEN << >>
    ELSE IF Len(words) = 1 THEN words[1]
    ELSE words[1] \o <<" ">> \o JoinWords(Tail(words))

\* lines 155-179
NormalizeName(name) ==
    LET upper == Strip(Upper(name))
        spaced == CollapseSpaces(upper)
        suffixed == ApplyReplacements(spaced, 1)
        plain == RemovePunctuation(suffixed)
    IN  JoinWords(SplitWords(plain, << >>))

\* raw names are put together from these parts
NameParts ==
    { <<"A","b">>, <<" ">>, <<"L","T","D">>, <<"L","i","m","i","t","e","d">>, <<".">> }

RawNames ==
    {FlattenSeq(ps) : ps \in UNION {[1..n -> NameParts] : n \in 0..MaxNameParts}}

NpInit ==
    /\ name1 \in RawNames
    /\ name2 = name1
    /\ edits = 0
    /\ norm1 = << >>
    /\ norm2 = << >>
    /\ npc = "names"
    /\ ScanIdle
    /\ RLIdle
    /\ ApiIdle
    /\ MoreIdle

LowerChar(ch) ==
    IF \E i \in 1..26 : UpperCase[i] = ch
    THEN LowerCase[CHOOSE i \in 1..26 : UpperCase[i] = ch]
    ELSE ch

\* name2 with the letter at position i in the other case
VaryCase(i) ==
    /\ npc = "names"
    /\ edits < MaxEdits
    /\ i \in 1..Len(name2)
    /\ IsLetter(name2[i])
    /\ name2' = [name2 EXCEPT ![i] = IF UpperChar(@) = @ THEN LowerChar(@) ELSE UpperChar(@)]
    /\ edits' = edits + 1
    /\ UNCHANGED <<name1, norm1, norm2, npc>>
    /\ UNCHANGED <<scanVars, rlVars, apiVars, moreVars>>

\* name2 with the run of whitespace at position i one character longer
LengthenSpace(i, ch) ==
    /\ npc = "names"
    /\ edits < MaxEdits
    /\ i \in 1..Len(name2)
    /\ IsSpace(name2[i])
    /\ name2' = SubSeq(name2, 1, i) \o <<ch>> \o SubSeq(name2, i + 1, Len(name2))
    /\ edits' = edits + 1
    /\ UNCHANGED <<name1, norm1, norm2, npc>>
    /\ UNCHANGED <<scanVars, rlVars, apiVars, moreVars>>

\* name2 with the run of whitespace at position i one character shorter
ShortenSpace(i) ==
    /\ npc = "names"
    /\ edits < MaxEdits
    /\ i \in 1..(Len(name2) - 1)
    /\ IsSpace(name2[i])
    /\ IsSpace(name2[i + 1])
    /\ name2' = SubSeq(name2, 1, i - 1) \o SubSeq(name2, i + 1, Len(name2))
    /\ edits' = edits + 1
    /\ UNCHANGED <<name1, norm1, norm2, npc>>
    /\ UNCHANGED <<scanVars, rlVars, apiVars, moreVars>>

\* name2 with its trailing LTD written LIMITED, or the other way round
SwapSuffix ==
    /\ npc = "names"
    /\ edits < MaxEdits
    /\ LET stem == RStrip(name2)
           tail == SubSeq(name2, Len(stem) + 1, Len(name2))
       IN \/ /\ EndsWith(Upper(stem), LTD)
             /\ name2' = SubSeq(stem, 1, Len(stem) - Len(LTD)) \o LIMITED \o tail
          \/ /\ EndsWith(Upper(stem), LIMITED)
             /\ name2' = SubSeq(stem, 1, Len(stem) - Len(LIMITED)) \o LTD \o tail
    /\ edits' = edits + 1
    /\ UNCHANGED <<name1, norm1, norm2, npc>>
    /\ UNCHANGED <<scanVars, rlVars, apiVars, moreVars>>

\* normalize_name applied to both names
Normalize ==
    /\ npc = "names"
    /\ norm1' = NormalizeName(name1)
    /\ norm2' = NormalizeName(name2)
    /\ npc' = "normalized"
    /\ UNCHANGED <<name1, name2, edits>>
    /\ UNCHANGED <<scanVars, rlVars, apiVars, moreVars>>

\* the positions a name may have
NamePositions == 1..(MaxNameParts * Len(LIMITED) + MaxEdits)

NpNext ==
    \/ \E i \in NamePositions : VaryCase(i)
    \/ \E i \in NamePositions : \E ch \in WhitespaceChars : LengthenSpace(i, ch)
    \/ \E i \in NamePositions : ShortenSpace(i)
    \/ SwapSuffix
    \/ Normalize

NpSpec == NpInit /\ [][NpNext]_vars

\* C19: names that differ only in letter case, in runs of whitespace or in a
\* trailing LTD against LIMITED have the same normalized name, which is in
\* upper case with single spaces and ends in LIMITED when the name ends in
\* either suffix
C19_NormalizeNameVariants ==
    npc = "normalized" =>
        /\ norm1 = norm2
        /\ \A i \in 1..Len(norm1) :
              /\ LowerChar(norm1[i]) = norm1[i] => ~IsLetter(norm1[i])
              /\ norm1[i] # "\t"
              /\ norm1[i] = " " => i > 1 /\ i < Len(norm1) /\ norm1[i + 1] # " "
        /\ (\/ EndsWith(Upper(RStrip(name1)), LTD)
            \/ EndsWith(Upper(RStrip(name1)), LIMITED))
              => EndsWith(norm1, LIMITED)

\* "Ab LTD"-like and "Ab  Limited"-like names: suffix and whitespace differ
C19_Witness ==
    /\ npc = "normalized"
    /\ edits = MaxEdits
    /\ EndsWith(Upper(name1), LTD)
    /\ EndsWith(Upper(name2), LIMITED)
    /\ Len(name2) > Len(name1) + Len(LIMITED) - Len(LTD)
    /\ Len(SplitWords(norm1, << >>)) = 2
    /\ norm1 # Upper(name1)

-----------------------------------------------------------------------------
(* The best match among the results of search_officers (lines 158-170)      *)

\* titles the results of one search may carry
ResultTitles == {ANN, ANNA, <<"A","N","N">>}

SearchResult(title) == [title |-> title, links |-> [self |-> SelfLink(title)]]

BmInit ==
    /\ bm_results \in
          UNION {[1..n -> {SearchResult(t) : t \in ResultTitles}] : n \in 1..MaxResults}
    /\ bm_name \in {ANN, ANNA}
    /\ best_match = << >>
    /\ bmpc = "results"
    /\ ScanIdle
    /\ RLIdle
    /\ ApiIdle
    /\ NpIdle
    /\ BpIdle
    /\ MdIdle
    /\ PfIdle
    /\ OvIdle

\* lines 160-170
SelectBestMatch ==
    /\ bmpc = "results"
    /\ best_match' = BestMatch(bm_results, bm_name)
    /\ bmpc' = "matched"
    /\ UNCHANGED <<bm_results, bm_name>>
    /\ UNCHANGED bmRest

BmNext == SelectBestMatch

BmSpec == BmInit /\ [][BmNext]_vars

\* the results whose title is the officer's name, ignoring case
ExactMatches ==
    {i \in 1..Len(bm_results) :
        \A k \in 1..Max(Len(bm_results[i].title), Len(bm_name)) :
            /\ k <= Len(bm_results[i].title)
            /\ k <= Len(bm_name)
            /\ UpperChar(bm_results[i].title[k]) = UpperChar(bm_name[k])}

\* C21: when some result has a title equal to the officer's name ignoring
\* case, the first such result is the best match; the first result is the
\* best match only when there is none
C21_ExactMatchPreferred ==
    bmpc = "matched" =>
        IF ExactMatches # {}
        THEN best_match = bm_results[CHOOSE i \in ExactMatches :
                                         \A j \in ExactMatches : i <= j]
        ELSE best_match = bm_results[1]

-----------------------------------------------------------------------------
(* BatchProcessor.process_companies and resume_from_checkpoint.  Company   *)
(* numbers are naturals here; the result of a company is its number.       *)

CHECKPOINT_INTERVAL == 10

\* lines 65-73
NewResults(numbers, flag) ==
    [exists |-> TRUE, company_numbers |-> numbers, scan_network |-> flag,
     processed_companies |-> << >>, results |-> << >>, network |-> "None",
     errors |-> << >>, completed |-> FALSE]

\* the lists of company numbers given to a run
ShortLists ==
    UNION {[1..n -> 1..MaxBatchNumber] : n \in 0..MaxShortList}
LongList == [i \in 1..(CHECKPOINT_INTERVAL + MaxBeyond) |-> i]

\* the checkpoint an earlier run over the list left behind, its first k
\* companies processed
EarlierCheckpoint(numbers, flag, k) ==
    [NewResults(numbers, flag) EXCEPT
        !.processed_companies = SubSeq(numbers, 1, k),
        !.results = SubSeq(numbers, 1, k)]

BpInit ==
    /\ company_numbers \in ShortLists \cup {LongList}
    /\ scan_network \in BOOLEAN
    /\ checkpoint_file \in
          {NoFile} \cup
          {EarlierCheckpoint(company_numbers, scan_network, k) :
              k \in 0..Min(MaxCheckpointed, Len(company_numbers))}
    /\ checkpoint_at_start = checkpoint_file
    /\ results = NoFile
    /\ processed = {}
    /\ idx = 0
    /\ handled = << >>
    /\ bpc = "start"
    /\ ScanIdle /\ RLIdle /\ ApiIdle /\ NpIdle /\ BmIdle /\ MdIdle /\ PfIdle /\ OvIdle

\* lines 60-74 (and 263-279: resume_from_checkpoint hands over the list and
\* the flag of the checkpoint)
LoadCheckpoint ==
    /\ bpc = "start"
    /\ IF checkpoint_file.exists
       THEN /\ results' = checkpoint_file
            /\ processed' = Range(checkpoint_file.processed_companies)
       ELSE /\ results' = NewResults(company_numbers, scan_network)
            /\ processed' = {}
    /\ bpc' = "loop"
    /\ UNCHANGED <<company_numbers, scan_network, checkpoint_file,
                   checkpoint_at_start, idx, handled>>
    /\ UNCHANGED bpRest

\* line 97
SaveDue(i) == (i + 1) % CHECKPOINT_INTERVAL = 0

\* line 79
AlreadyProcessed(c) == c \in processed

\* lines 78-80
SkipProcessed ==
    /\ bpc = "loop"
    /\ idx < Len(company_numbers)
    /\ AlreadyProcessed(company_numbers[idx + 1])
    /\ idx' = idx + 1
    /\ UNCHANGED <<company_numbers, scan_network, checkpoint_file,
                   checkpoint_at_start, results, processed, handled, bpc>>
    /\ UNCHANGED bpRest

\* lines 90-98: _process_single_company returns
ProcessCompany ==
    /\ bpc = "loop"
    /\ idx < Len(company_numbers)
    /\ ~AlreadyProcessed(company_numbers[idx + 1])
    /\ LET company_number == company_numbers[idx + 1]
           after == [results EXCEPT
                        !.results = Append(@, company_number),
                        !.processed_companies = Append(@, company_number)]
       IN /\ results' = after
          /\ handled' = Append(handled, company_number)
          /\ checkpoint_file' = IF SaveDue(idx) THEN after ELSE checkpoint_file
    /\ idx' = idx + 1
    /\ UNCHANGED <<company_numbers, scan_network, checkpoint_at_start,
                   processed, bpc>>
    /\ UNCHANGED bpRest

\* lines 90-92, 100-107: _process_single_company raises
ProcessFails ==
    /\ bpc = "loop"
    /\ idx < Len(company_numbers)
    /\ ~AlreadyProcessed(company_numbers[idx + 1])
    /\ results' = [results EXCEPT !.errors = Append(@, company_numbers[idx + 1])]
    /\ handled' = Append(handled, company_numbers[idx + 1])
    /\ idx' = idx + 1
    /\ UNCHANGED <<company_numbers, scan_network, checkpoint_file,
                   checkpoint_at_start, processed, bpc>>
    /\ UNCHANGED bpRest

\* lines 109-139: the crawl when asked for, the totals, the last save
Finalize(crawl_ok) ==
    /\ bpc = "loop"
    /\ idx = Len(company_numbers)
    /\ crawl_ok \/ scan_network
    /\ LET after ==
             IF ~scan_network THEN results
             ELSE IF crawl_ok THEN [results EXCEPT !.network = "network"]
             ELSE [results EXCEPT !.errors = Append(@, 0)]
           final == [after EXCEPT !.completed = TRUE]
       IN /\ results' = final
          /\ checkpoint_file' = final
    /\ bpc' = "done"
    /\ UNCHANGED <<company_numbers, scan_network, checkpoint_at_start, processed,
                   idx, handled>>
    /\ UNCHANGED bpRest

BpNext ==
    \/ LoadCheckpoint
    \/ SkipProcessed
    \/ ProcessCompany
    \/ ProcessFails
    \/ \E crawl_ok \in BOOLEAN : Finalize(crawl_ok)

BpSpec == BpInit /\ [][BpNext]_vars

\* number of entries of a list of results for company number c
Entries(rs, c) == Cardinality({i \in 1..Len(rs) : rs[i] = c})

\* C26: a run that starts from an existing checkpoint processes no company
\* of its processed_companies again, keeps the stored results, and ends
\* with at most one entry per company number in results
C26_ResumeProcessesOnce ==
    (bpc = "done" /\ checkpoint_at_start.exists) =>
        /\ Range(handled) \cap Range(checkpoint_at_start.processed_companies) = {}
        /\ SubSeq(results.results, 1, Len(checkpoint_at_start.results))
               = checkpoint_at_start.results
        /\ \A i \in 1..Len(results.results) :
               Entries(results.results, results.results[i]) <= 1

\* the successes of the run that the checkpoint file does not hold
MissingFromFile ==
    Len(results.results)
        - (IF checkpoint_file.exists THEN Len(checkpoint_file.results) ELSE 0)

\* C27: at any moment of the run at most CHECKPOINT_INTERVAL - 1 companies
\* processed with success are missing from the checkpoint file
C27_CheckpointEveryInterval ==
    bpc \in {"loop", "done"} => MissingFromFile <= CHECKPOINT_INTERVAL - 1

-----------------------------------------------------------------------------
(* MismatchDetector._check_missing_filings *)

NoName == << >>
AB_LTD == <<"A","b"," ","L","t","d">>
AB_LIMITED == <<"A","B"," ","L","I","M","I","T","E","D">>
CD_LTD == <<"C","D"," ","L","T","D",".">>
TEST_COMPANY_LIMITED ==
    <<"T","E","S","T"," ","C","O","M","P","A","N","Y"," ","L","I","M","I","T","E","D">>

\* line 304
RelevantTypes == {"incorporation", "name_change", "reregistration"}

DocumentTypes == {"incorporation", "name_change", "resolution"}
DocumentNames == { << >>, <<AB_LIMITED>>, <<CD_LTD>>, <<AB_LTD, CD_LTD>>, <<NoName>> }
Documents ==
    [success : BOOLEAN, document_type : DocumentTypes, names : DocumentNames]
Profiles ==
    [company_name : {AB_LTD, CD_LTD}, previous_company_names : {<< >>, <<CD_LTD>>}]

MdInit ==
    /\ company_profile \in Profiles
    /\ parsed_documents \in UNION {[1..n -> Documents] : n \in 0..MaxDocuments}
    /\ issues = << >>
    /\ mdc = "documents"
    /\ ScanIdle /\ RLIdle /\ ApiIdle /\ NpIdle /\ BmIdle /\ BpIdle /\ PfIdle /\ OvIdle

\* lines 274-282: the normalized names of the overview
OfficialNamesSet(profile) ==
    {NormalizeName(Strip(Upper(profile.company_name)))}
        \cup {NormalizeName(Strip(Upper(profile.previous_company_names[i]))) :
                 i \in {j \in 1..Len(profile.previous_company_names) :
                           Strip(Upper(profile.previous_company_names[j])) # << >>}}

\* lines 295-305: the documents whose names are looked at
Checked(doc) == doc.success /\ doc.document_type \in RelevantTypes

\* lines 308-314: the keys of filing_names after the names of one document
RECURSIVE AddNames(_, _)
AddNames(filing_names, extracted_names) ==
    IF extracted_names = << >> THEN filing_names
    ELSE LET normalized == NormalizeName(Head(extracted_names))
         IN  AddNames(IF normalized # << >> /\ normalized \notin Range(filing_names)
                      THEN Append(filing_names, normalized)
                      ELSE filing_names,
                      Tail(extracted_names))

\* lines 292-314: the keys of filing_names, in the order of insertion
RECURSIVE FilingNames(_, _)
FilingNames(docs, filing_names) ==
    IF docs = << >> THEN filing_names
    ELSE FilingNames(Tail(docs),
                     IF Checked(Head(docs))
                     THEN AddNames(filing_names, Head(docs).names)
                     ELSE filing_names)

\* lines 316-322
MissingFromOverview(filing_names, official) ==
    SelectSeq(filing_names, LAMBDA n : n \notin official)

\* lines 324-335: the entry added when nothing is missing
DebugEntry(missing, docs) ==
    IF missing = << >> /\ Len(docs) > 0 THEN <<TEST_COMPANY_LIMITED>> ELSE missing

\* lines 258-366
CheckMissingFilings ==
    /\ mdc = "documents"
    /\ LET official_names_set == OfficialNamesSet(company_profile)
           filing_names == FilingNames(parsed_documents, << >>)
           missing_from_overview ==
               DebugEntry(MissingFromOverview(filing_names, official_names_set),
                          parsed_documents)
       IN issues' = IF missing_from_overview # << >>
                    THEN << [type |-> "names_in_filings_missing_from_overview",
                             missing_count |-> Len(missing_from_overview),
                             missing_names |-> missing_from_overview] >>
                    ELSE << >>
    /\ mdc' = "checked"
    /\ UNCHANGED <<company_profile, parsed_documents>>
    /\ UNCHANGED mdRest

MdNext == CheckMissingFilings

MdSpec == MdInit /\ [][MdNext]_vars

\* the names extracted from the documents that were parsed and are of a
\* relevant type
ExtractedNames ==
    UNION {Range(parsed_documents[i].names) :
              i \in {j \in 1..Len(parsed_documents) : Checked(parsed_documents[j])}}

\* their normalized names that the official names do not hold
AbsentNames ==
    {NormalizeName(n) : n \in ExtractedNames}
        \ ({NoName} \cup OfficialNamesSet(company_profile))

ReportedMissing ==
    {i \in 1..Len(issues) : issues[i].type = "names_in_filings_missing_from_overview"}

\* C28: a names_in_filings_missing_from_overview mismatch is reported if and
\* only if a normalized name of a parsed incorporation, name-change or
\* re-registration document is absent from the normalized official names,
\* and its missing_names are exactly the absent names
C28_MissingNamesExact ==
    mdc = "checked" =>
        /\ ReportedMissing # {} <=> AbsentNames # {}
        /\ \A i \in ReportedMissing : Range(issues[i].missing_names) = AbsentNames

-----------------------------------------------------------------------------
(* CompaniesHouseClient.get_company_profile and its cache of profile files *)

ProfileCompanies == {"AA", "BB"}
ProfileKeys == <<"company_number", "company_name", "company_status">>
ProfileStatuses == {"active", "dissolved"}

\* what GET /company/{number} answers
RegistryProfile(c) ==
    [company_number |-> c, company_name |-> c, company_status |-> registry_profiles[c]]

\* line 100: json.dump writes the keys and values of the dict in its order
JsonDump(data) == [i \in 1..Len(ProfileKeys) |-> <<ProfileKeys[i], data[ProfileKeys[i]]>>]

\* line 92: json.load builds the dict from the keys and values of the text
JsonLoad(text) ==
    [k \in {text[i][1] : i \in 1..Len(text)} |->
        text[CHOOSE i \in 1..Len(text) : text[i][1] = k][2]]

PfInit ==
    /\ registry_profiles \in [ProfileCompanies -> ProfileStatuses]
    /\ cache_dir \in
          {[c \in ProfileCompanies |-> NoEntry]} \cup
          {[c \in ProfileCompanies |->
               IF c = d THEN JsonDump(RegistryProfile(d)) ELSE NoEntry] :
             d \in ProfileCompanies}
    /\ first_returned = [c \in ProfileCompanies |-> NoProfile]
    /\ last_call = NoCall
    /\ acquired = 0
    /\ http_requests = 0
    /\ pf_calls = 0
    /\ ScanIdle /\ RLIdle /\ ApiIdle /\ NpIdle /\ BmIdle /\ BpIdle /\ MdIdle /\ OvIdle

\* (mutant) the cache is not looked at
CacheExists_Never(c) == FALSE

\* line 90
CacheExists(c) == cache_dir[c] # NoEntry

\* the first profile that a call for c returned
Remember(c, data) ==
    IF first_returned[c] = NoProfile
    THEN [first_returned EXCEPT ![c] = data]
    ELSE first_returned

\* lines 89-92: the profile comes from the cache file
CachedProfile(c) ==
    /\ pf_calls < MaxProfileCalls
    /\ CacheExists(c)
    /\ LET data == JsonLoad(cache_dir[c])
       IN /\ last_call' = [company_number |-> c, ok |-> TRUE, data |-> data]
          /\ first_returned' = Remember(c, data)
    /\ pf_calls' = pf_calls + 1
    /\ UNCHANGED <<registry_profiles, cache_dir, acquired, http_requests>>
    /\ UNCHANGED pfRest

\* lines 89-103: no cache file; _make_request takes the given number of round
\* trips, each with a token of the rate limiter, and returns or raises
FetchedProfile(c, round_trips, ok) ==
    /\ pf_calls < MaxProfileCalls
    /\ ~CacheExists(c)
    /\ ~ok => round_trips = MAX_RETRIES
    /\ acquired' = acquired + round_trips
    /\ http_requests' = http_requests + round_trips
    /\ IF ok
       THEN LET data == RegistryProfile(c)
            IN /\ cache_dir' = [cache_dir EXCEPT ![c] = JsonDump(data)]
               /\ last_call' = [company_number |-> c, ok |-> TRUE, data |-> data]
               /\ first_returned' = Remember(c, data)
       ELSE /\ last_call' = [company_number |-> c, ok |-> FALSE, data |-> NoProfile]
            /\ UNCHANGED <<cache_dir, first_returned>>
    /\ pf_calls' = pf_calls + 1
    /\ UNCHANGED registry_profiles
    /\ UNCHANGED pfRest

\* the registry changes the status of a company between two calls
RegistryChanges(c) ==
    /\ registry_profiles' =
          [registry_profiles EXCEPT ![c] = IF @ = "active" THEN "dissolved" ELSE "active"]
    /\ UNCHANGED <<cache_dir, first_returned, last_call, acquired, http_requests,
                   pf_calls>>
    /\ UNCHANGED pfRest

PfNext ==
    \/ \E c \in ProfileCompanies : CachedProfile(c)
    \/ \E c \in ProfileCompanies, round_trips \in 1..MAX_RETRIES, ok \in BOOLEAN :
          FetchedProfile(c, round_trips, ok)
    \/ \E c \in ProfileCompanies : RegistryChanges(c)

PfSpec == PfInit /\ [][PfNext]_vars

\* C29: once get_company_profile(c) has returned, every later call for c
\* returns the same profile with no token acquired and no HTTP request, and
\* a call that fails writes no cache entry
C29_CachedProfileReused ==
    [][pf_calls' = pf_calls + 1 =>
          /\ first_returned[last_call'.company_number] # NoProfile =>
                /\ last_call'.ok
                /\ last_call'.data = first_returned[last_call'.company_number]
                /\ acquired' = acquired
                /\ http_requests' = http_requests
          /\ ~last_call'.ok => cache_dir' = cache_dir]_vars

\* a second call for a company answered from the cache with the profile of
\* the first, which the registry no longer gives
C29_Witness ==
    /\ pf_calls >= 2
    /\ last_call.ok
    /\ acquired = 1
    /\ http_requests = 1
    /\ last_call.data = first_returned[last_call.company_number]
    /\ last_call.data # RegistryProfile(last_call.company_number)

-----------------------------------------------------------------------------
(* Two scan_network invocations on one NetworkScanner.  A first crawl runs  *)
(* alone; then two invocations with its arguments run with their steps      *)
(* interleaved.  Each invocation has its own locals, the one that is not    *)
(* running keeps them in `other`; self.scanned_companies and                *)
(* self.scanned_officers belong to the scanner.                             *)

Locals(p) ==
    [network |-> EmptyNetwork, companies_to_scan |-> << >>, pc |-> p,
     cur |-> <<"", 0>>, officers |-> << >>, officer |-> NoOfficer,
     officer_api_id |-> << >>]

OvInit ==
    /\ reg_status \in StatusMaps
    /\ reg_officers \in OfficerMaps
    /\ seed_companies \in {<<c>> : c \in SeedPool}
    /\ max_depth \in 0..MaxDepthArg
    /\ max_companies \in 1..MaxCompaniesArg
    /\ active_only \in BOOLEAN
    /\ network = EmptyNetwork
    /\ scanned_companies = {}
    /\ scanned_officers = {}
    /\ companies_to_scan = [i \in 1..Len(seed_companies) |-> <<seed_companies[i], 0>>]
    /\ pc = "loop"
    /\ cur = <<"", 0>>
    /\ officers = << >>
    /\ officer = NoOfficer
    /\ officer_api_id = << >>
    /\ clusters = << >>
    /\ shared = << >>
    /\ calls = << >>
    /\ dropped = << >>
    /\ failures = MaxFailures
    /\ steps = 0
    /\ other = Locals("off")
    /\ alone = EmptyNetwork
    /\ phase = "alone"
    /\ switches = 0
    /\ RLIdle /\ ApiIdle /\ NpIdle /\ BmIdle /\ BpIdle /\ MdIdle /\ PfIdle

\* the first crawl has returned: its snapshot is kept and two invocations
\* are called with the same arguments
StartPair ==
    /\ phase = "alone"
    /\ pc = "done"
    /\ alone' = network
    /\ phase' = "pair"
    /\ pc' = "start"
    /\ other' = Locals("start")
    /\ UNCHANGED <<reg_status, reg_officers, seed_companies, max_depth, max_companies,
                   active_only, network, scanned_companies, scanned_officers,
                   companies_to_scan, cur, officers, officer, officer_api_id,
                   clusters, shared, calls, dropped, failures, steps, switches>>
    /\ UNCHANGED ovRest

\* lines 40-59: the running invocation builds its snapshot, empties the sets
\* of the scanner and fills its frontier
BeginScan ==
    /\ pc = "start"
    /\ network' = EmptyNetwork
    /\ scanned_companies' = {}
    /\ scanned_officers' = {}
    /\ companies_to_scan' = [i \in 1..Len(seed_companies) |-> <<seed_companies[i], 0>>]
    /\ pc' = "loop"
    /\ UNCHANGED <<reg_status, reg_officers, seed_companies, max_depth, max_companies,
                   active_only, cur, officers, officer, officer_api_id,
                   clusters, shared, calls, dropped, failures, steps>>
    /\ UNCHANGED <<other, alone, phase, switches>>
    /\ UNCHANGED ovRest

\* the running invocation is put aside and the other one goes on
Switch ==
    /\ phase = "pair"
    /\ switches < MaxSwitches
    /\ other.pc # "done"
    /\ other' = [network |-> network, companies_to_scan |-> companies_to_scan,
                 pc |-> pc, cur |-> cur, officers |-> officers, officer |-> officer,
                 officer_api_id |-> officer_api_id]
    /\ network' = other.network
    /\ companies_to_scan' = other.companies_to_scan
    /\ pc' = other.pc
    /\ cur' = other.cur
    /\ officers' = other.officers
    /\ officer' = other.officer
    /\ officer_api_id' = other.officer_api_id
    /\ switches' = switches + 1
    /\ UNCHANGED <<reg_status, reg_officers, seed_companies, max_depth, max_companies,
                   active_only, scanned_companies, scanned_officers,
                   clusters, shared, calls, dropped, failures, steps>>
    /\ UNCHANGED <<alone, phase>>
    /\ UNCHANGED ovRest

OvNext ==
    \/ Dequeue
    \/ FetchProfile
    \/ FetchOfficers
    \/ OfficerLoop
    \/ SearchOfficer
    \/ FetchAppointments
    \/ Finish
    \/ StartPair
    \/ BeginScan
    \/ Switch

OvSpec == OvInit /\ [][OvNext]_vars

\* C30: each of two invocations whose steps are interleaved, and a crawl
\* that follows another one, returns the snapshot that the crawl returns
\* when it runs alone
C30_SnapshotAsAlone ==
    phase = "pair" =>
        /\ pc = "done" => network = alone
        /\ other.pc = "done" => other.network = alone

====
